---- MODULE Spec2Model ----
(***************************************************************************)
(* Model of the ADS-B raw decoder core of acars_vdlm2_parser:              *)
(*   - the frame extractor  (src/src/helpers/encode_adsb_raw_input.rs)     *)
(*   - the CRC-24 engine and the legacy altitude / identity codec          *)
(*     (src/src/message_types/adsb_raw.rs)                                 *)
(* Bytes, u8/u16/u32 values and characters are natural numbers.            *)
(***************************************************************************)
EXTENDS Integers, Sequences, FiniteSets, TLC

VARIABLES
    bytes,              \* frame extractor: the input slice
    pos,                \* frame extractor: index (1-based) of the next byte of the scan
    formatted_frames,   \* frame extractor: frames emitted so far
    current_frame,      \* frame extractor: accumulation buffer
    errors_found,       \* frame extractor: diagnostics recorded so far
    entry,              \* frame extractor: number of start markers seen
    line,               \* format_adsb_raw_frame_from_str: the argument
    str_out,            \* format_adsb_raw_frame_from_str: the returned String
    message,            \* modes_checksum: the message slice
    bits,               \* modes_checksum: the bit length
    crc,                \* modes_checksum: the Result returned
    id13_field,         \* decode_id13_field: the argument
    hex_gillham,        \* decode_id13_field: the value returned
    mode_a,             \* mode_a_to_mode_c: the argument
    mode_c,             \* mode_a_to_mode_c: the Result returned
    num,                \* altitude decoders: the raw 12- or 13-bit field
    alt,                \* altitude decoders: the value returned
    id_field,           \* identity decoders: the raw 13-bit field
    squawk,             \* identity decoders: the Result returned
    rest,               \* aircraft_identification_read: the bytes left to read
    cn,                 \* aircraft_identification_read: the Result returned
    icao,               \* ICAO: the address given to Display
    hex_a,              \* ICAO: the string written by Display
    hex_b,              \* ICAO: a string supplied by the caller
    icao_a,             \* ICAO: the Result of from_str(hex_a)
    icao_b,             \* ICAO: the Result of from_str(hex_b)
    velocity,           \* AirborneVelocity::calculate: the message (self)
    calculated,         \* AirborneVelocity::calculate: the Option returned
    input,              \* AdsbRawMessage::from_bytes: the bytes of the frame
    decoded,            \* AdsbRawMessage::from_bytes: the Result returned
    pc                  \* position of the operation under way:
                        \*   "scan" | "done" for the frame extractor's loop,
                        \*   "call" | "returned" for a function applied once,
                        \*   "call" | the name of the function applied where a
                        \*   component has several

vars ==
    <<bytes, pos, formatted_frames, current_frame, errors_found, entry,
      line, str_out, message, bits, crc, id13_field, hex_gillham,
      mode_a, mode_c, num, alt, id_field, squawk, rest, cn, icao, hex_a,
      hex_b, icao_a, icao_b, velocity, calculated, input, decoded, pc>>

\* a Result not yet returned
NoResult == [kind |-> "None", value |-> 0]

\* the operations other than c are not under way and hold no data
Idle(c) ==
    /\ IF c = "frames" THEN TRUE
       ELSE /\ bytes = <<>>
            /\ pos = 1
            /\ formatted_frames = <<>>
            /\ current_frame = <<>>
            /\ errors_found = <<>>
            /\ entry = 0
    /\ IF c = "str" THEN TRUE ELSE line = <<>> /\ str_out = <<>>
    /\ IF c = "crc" THEN TRUE ELSE message = <<>> /\ bits = 0 /\ crc = NoResult
    /\ IF c = "id13" THEN TRUE ELSE id13_field = 0 /\ hex_gillham = 0
    /\ IF c = "mode" THEN TRUE ELSE mode_a = 0 /\ mode_c = NoResult
    /\ IF c = "alt" THEN TRUE ELSE num = 0 /\ alt = NoResult
    /\ IF c = "id" THEN TRUE ELSE id_field = 0 /\ squawk = NoResult
    /\ IF c = "cs" THEN TRUE ELSE rest = <<>> /\ cn = NoResult
    /\ IF c = "icao" THEN TRUE
       ELSE /\ icao = <<>>
            /\ hex_a = <<>>
            /\ hex_b = <<>>
            /\ icao_a = NoResult
            /\ icao_b = NoResult
    /\ IF c = "vel" THEN TRUE ELSE velocity = <<>> /\ calculated = NoResult
    /\ IF c = "env" THEN TRUE ELSE input = <<>> /\ decoded = NoResult

(***************************************************************************)
(* Bit operations on naturals (Rust's &, |, ^ on unsigned integers).       *)
(***************************************************************************)
RECURSIVE BitAnd(_, _)
BitAnd(a, b) ==
    IF a = 0 \/ b = 0 THEN 0
    ELSE (IF a % 2 = 1 /\ b % 2 = 1 THEN 1 ELSE 0) + 2 * BitAnd(a \div 2, b \div 2)

RECURSIVE BitOr(_, _)
BitOr(a, b) ==
    IF a = 0 THEN b
    ELSE IF b = 0 THEN a
    ELSE (IF a % 2 = 1 \/ b % 2 = 1 THEN 1 ELSE 0) + 2 * BitOr(a \div 2, b \div 2)

RECURSIVE BitXor(_, _)
BitXor(a, b) ==
    IF a = 0 THEN b
    ELSE IF b = 0 THEN a
    ELSE (((a % 2) + (b % 2)) % 2) + 2 * BitXor(a \div 2, b \div 2)

\* bit k (counted from bit 0) of x
Bit(x, k) == (x \div (2 ^ k)) % 2

(***************************************************************************)
(* Frame extractor: constants                                              *)
(***************************************************************************)
ADSB_RAW_START_CHARACTER == 42
ADSB_RAW_END_SEQUENCE_FINISH_CHARACTER == 59
ADSB_RAW_END_SEQUENCE_INIT_CHARACTER == 10
ADSB_RAW_FRAME_SMALL == 14
ADSB_RAW_FRAME_LARGE == 28
ADSB_RAW_MODEAC_FRAME == 4

(***************************************************************************)
(* String::from_utf8: succeeds iff the bytes are well-formed UTF-8.        *)
(***************************************************************************)
IsCont(s, i) == i <= Len(s) /\ s[i] >= 128 /\ s[i] <= 191

RECURSIVE Utf8From(_, _)
Utf8From(s, i) ==
    IF i > Len(s) THEN TRUE
    ELSE LET b == s[i] IN
         IF b < 128 THEN Utf8From(s, i + 1)
         ELSE IF b >= 194 /\ b <= 223
              THEN IsCont(s, i + 1) /\ Utf8From(s, i + 2)
         ELSE IF b = 224
              THEN IsCont(s, i + 1) /\ s[i + 1] >= 160 /\ IsCont(s, i + 2)
                   /\ Utf8From(s, i + 3)
         ELSE IF b = 237
              THEN IsCont(s, i + 1) /\ s[i + 1] <= 159 /\ IsCont(s, i + 2)
                   /\ Utf8From(s, i + 3)
         ELSE IF b >= 225 /\ b <= 239
              THEN IsCont(s, i + 1) /\ IsCont(s, i + 2) /\ Utf8From(s, i + 3)
         ELSE IF b = 240
              THEN IsCont(s, i + 1) /\ s[i + 1] >= 144 /\ IsCont(s, i + 2)
                   /\ IsCont(s, i + 3) /\ Utf8From(s, i + 4)
         ELSE IF b >= 241 /\ b <= 243
              THEN IsCont(s, i + 1) /\ IsCont(s, i + 2) /\ IsCont(s, i + 3)
                   /\ Utf8From(s, i + 4)
         ELSE IF b = 244
              THEN IsCont(s, i + 1) /\ s[i + 1] <= 143 /\ IsCont(s, i + 2)
                   /\ IsCont(s, i + 3) /\ Utf8From(s, i + 4)
         ELSE FALSE

FromUtf8Ok(s) == Utf8From(s, 1)

(***************************************************************************)
(* hex::decode: two hex digits (either case) per output byte; an odd       *)
(* length or a character that is no hex digit is an error.                 *)
(***************************************************************************)
\* value of an ASCII hex digit, -1 when the character is none
HexVal(c) ==
    IF c >= 48 /\ c <= 57 THEN c - 48
    ELSE IF c >= 65 /\ c <= 70 THEN c - 55
    ELSE IF c >= 97 /\ c <= 102 THEN c - 87
    ELSE -1

HexDecodeOk(s) ==
    /\ Len(s) % 2 = 0
    /\ \A i \in 1..Len(s) : HexVal(s[i]) >= 0

\* mutant: the two digits of a byte taken in the wrong order
HexDecodeSwapped(s) ==
    [i \in 1..(Len(s) \div 2) |-> 16 * HexVal(s[2 * i]) + HexVal(s[2 * i - 1])]

HexDecode(s) ==
    [i \in 1..(Len(s) \div 2) |-> 16 * HexVal(s[2 * i - 1]) + HexVal(s[2 * i])]

(***************************************************************************)
(* Frame extractor: diagnostics                                            *)
(***************************************************************************)
\* ADSBRawError::ByteSequenceWrong { size: u8 }
ByteSequenceWrong(size) ==
    [kind |-> "ByteSequenceWrong", size |-> size, message |-> ""]

\* ADSBRawError::StringError { message: String }
StringError(text) ==
    [kind |-> "StringError", size |-> 0, message |-> text]

(***************************************************************************)
(* Frame extractor: one iteration of the loop over the input bytes.        *)
(* A scan state is the record of the four locals of                        *)
(* format_adsb_raw_frames_from_bytes.                                      *)
(***************************************************************************)
ScanInit ==
    [formatted_frames |-> <<>>, current_frame |-> <<>>,
     errors_found |-> <<>>, entry |-> 0]

\* `current_frame.len() as u8`
LenAsU8(frame) == Len(frame) % 256

\* mutant: no arm for the Mode-A/C length, 4 is an invalid size like any other
CloseFrameNoModeAC(st) ==
    LET len == Len(st.current_frame) IN
    IF len = ADSB_RAW_FRAME_SMALL \/ len = ADSB_RAW_FRAME_LARGE
    THEN IF FromUtf8Ok(st.current_frame) /\ HexDecodeOk(st.current_frame)
         THEN [st EXCEPT !.formatted_frames =
                             Append(@, HexDecode(st.current_frame))]
         ELSE [st EXCEPT !.errors_found = Append(@, StringError("string"))]
    ELSE [st EXCEPT !.errors_found =
            Append(@, ByteSequenceWrong(LenAsU8(st.current_frame)))]

\* the match on current_frame.len() taken when LF closes a frame
CloseFrame(st) ==
    LET len == Len(st.current_frame) IN
    IF len = ADSB_RAW_MODEAC_FRAME THEN st
    ELSE IF len = ADSB_RAW_FRAME_SMALL \/ len = ADSB_RAW_FRAME_LARGE
    THEN IF FromUtf8Ok(st.current_frame)
         THEN IF HexDecodeOk(st.current_frame)
              THEN [st EXCEPT !.formatted_frames =
                                  Append(@, HexDecode(st.current_frame))]
              ELSE [st EXCEPT !.errors_found =
                      Append(@, StringError("Could not convert the {frame_string} string to bytes"))]
         ELSE [st EXCEPT !.errors_found =
                 Append(@, StringError("Could not convert the bytes {current_frame} to a string"))]
    ELSE [st EXCEPT !.errors_found =
            Append(@, ByteSequenceWrong(LenAsU8(st.current_frame)))]

\* mutant: the start marker does not clear the accumulation buffer
StartFrameKeep(st) ==
    [st EXCEPT !.entry = @ + 1]

\* the `*` branch
StartFrame(st) ==
    [st EXCEPT !.entry = @ + 1, !.current_frame = <<>>]

\* mutant: only LF is kept out of the buffer
PushByteKeepsFinish(st, byte) ==
    IF byte # ADSB_RAW_END_SEQUENCE_INIT_CHARACTER
    THEN [st EXCEPT !.current_frame = Append(@, byte)]
    ELSE st

\* the last branch: every byte other than `;` and LF is accumulated
PushByte(st, byte) ==
    IF byte # ADSB_RAW_END_SEQUENCE_FINISH_CHARACTER
       /\ byte # ADSB_RAW_END_SEQUENCE_INIT_CHARACTER
    THEN [st EXCEPT !.current_frame = Append(@, byte)]
    ELSE st

IsClose(st, byte) == byte = ADSB_RAW_END_SEQUENCE_INIT_CHARACTER /\ st.entry # 0

ScanByte(st, byte) ==
    IF IsClose(st, byte) THEN CloseFrame(st)
    ELSE IF byte = ADSB_RAW_START_CHARACTER THEN StartFrame(st)
    ELSE PushByte(st, byte)

\* the loop over the bytes s[lo..hi], in order.  The range is split in halves
\* and the state after the first half is computed before the second half is
\* entered (the test on entry does that: a counter is never negative), which
\* keeps the evaluation shallow; the bytes are still consumed left to right.
RECURSIVE ScanRange(_, _, _, _)
ScanRange(st, s, lo, hi) ==
    IF lo > hi THEN st
    ELSE IF lo = hi THEN ScanByte(st, s[lo])
    ELSE LET mid == (lo + hi) \div 2
             half == ScanRange(st, s, lo, mid)
         IN IF half.entry >= 0 THEN ScanRange(half, s, mid + 1, hi) ELSE half

format_adsb_raw_frames_from_bytes(s) == ScanRange(ScanInit, s, 1, Len(s))

(***************************************************************************)
(* Frame extractor: the inputs explored.  An input is the concatenation of *)
(* at most MaxFrames segments of SegLib, or one of LongInputs.             *)
(***************************************************************************)
MaxFrames == 3

\* a run of `A` longer than a u8 can count
LongRun == [i \in 1..(256 + 4) |-> 65]

Wrap(body) == <<42>> \o body \o <<59, 10>>

SegLib == <<
    \* *5DABE65A2FBFAF;\n
    Wrap(<<53, 68, 65, 66, 69, 54, 53, 65, 50, 70, 66, 70, 65, 70>>),
    \* *8DA1A3CC9909B814F004127F1107;\n
    Wrap(<<56, 68, 65, 49, 65, 51, 67, 67, 57, 57, 48, 57, 66, 56,
           49, 52, 70, 48, 48, 52, 49, 50, 55, 70, 49, 49, 48, 55>>),
    \* *5dabe65a2fbfaf;\n
    Wrap(<<53, 100, 97, 98, 101, 54, 53, 97, 50, 102, 98, 102, 97, 102>>),
    \* *5424;\n  and another 4-byte frame
    Wrap(<<53, 52, 50, 52>>),
    Wrap(<<122, 0, 255, 32>>),
    \* *5DABE6;\n  (6 characters)
    Wrap(<<53, 68, 65, 66, 69, 54>>),
    \* *5DABE65A2FBFAG;\n  (14 characters, G is no hex digit)
    Wrap(<<53, 68, 65, 66, 69, 54, 53, 65, 50, 70, 66, 70, 65, 71>>),
    \* 14 bytes that are not UTF-8
    Wrap(<<53, 68, 65, 66, 69, 54, 53, 65, 50, 70, 66, 70, 195, 40>>),
    \* a bare LF, junk without a start marker: 5D;
    <<10>>,
    <<53, 68, 59>>,
    \* a start marker and a truncated frame: *5DAB
    <<42, 53, 68, 65, 66>>
>>

RECURSIVE Concat(_, _)
Concat(f, i) ==
    IF i > Len(f) THEN <<>> ELSE SegLib[f[i]] \o Concat(f, i + 1)

(***************************************************************************)
(* Frame extractor: the state machine.  One action per branch of the loop  *)
(* body, and one for the return.                                           *)
(***************************************************************************)
locals ==
    [formatted_frames |-> formatted_frames, current_frame |-> current_frame,
     errors_found |-> errors_found, entry |-> entry]

SetLocals(st) ==
    /\ formatted_frames' = st.formatted_frames
    /\ current_frame' = st.current_frame
    /\ errors_found' = st.errors_found
    /\ entry' = st.entry

Scanning == pc = "scan" /\ pos <= Len(bytes)

\* LF after a start marker: classify the accumulated frame
ScanCloseFrame ==
    /\ Scanning
    /\ IsClose(locals, bytes[pos])
    /\ SetLocals(ScanByte(locals, bytes[pos]))
    /\ pos' = pos + 1
    /\ UNCHANGED <<bytes, line, str_out, message, bits, crc, id13_field,
                   hex_gillham, mode_a, mode_c, num, alt, id_field, squawk,
                   rest, cn, icao, hex_a, hex_b, icao_a, icao_b, velocity,
                   calculated, input, decoded, pc>>

\* `*`: start a new accumulation buffer
ScanStartFrame ==
    /\ Scanning
    /\ ~IsClose(locals, bytes[pos])
    /\ bytes[pos] = ADSB_RAW_START_CHARACTER
    /\ SetLocals(ScanByte(locals, bytes[pos]))
    /\ pos' = pos + 1
    /\ UNCHANGED <<bytes, line, str_out, message, bits, crc, id13_field,
                   hex_gillham, mode_a, mode_c, num, alt, id_field, squawk,
                   rest, cn, icao, hex_a, hex_b, icao_a, icao_b, velocity,
                   calculated, input, decoded, pc>>

\* any byte other than `*`, `;` and LF: accumulate it
ScanPushByte ==
    /\ Scanning
    /\ ~IsClose(locals, bytes[pos])
    /\ bytes[pos] \notin {ADSB_RAW_START_CHARACTER,
                          ADSB_RAW_END_SEQUENCE_FINISH_CHARACTER,
                          ADSB_RAW_END_SEQUENCE_INIT_CHARACTER}
    /\ SetLocals(ScanByte(locals, bytes[pos]))
    /\ pos' = pos + 1
    /\ UNCHANGED <<bytes, line, str_out, message, bits, crc, id13_field,
                   hex_gillham, mode_a, mode_c, num, alt, id_field, squawk,
                   rest, cn, icao, hex_a, hex_b, icao_a, icao_b, velocity,
                   calculated, input, decoded, pc>>

\* `;`, or LF before any start marker: nothing happens
ScanSkipByte ==
    /\ Scanning
    /\ ~IsClose(locals, bytes[pos])
    /\ bytes[pos] \in {ADSB_RAW_END_SEQUENCE_FINISH_CHARACTER,
                       ADSB_RAW_END_SEQUENCE_INIT_CHARACTER}
    /\ SetLocals(ScanByte(locals, bytes[pos]))
    /\ pos' = pos + 1
    /\ UNCHANGED <<bytes, line, str_out, message, bits, crc, id13_field,
                   hex_gillham, mode_a, mode_c, num, alt, id_field, squawk,
                   rest, cn, icao, hex_a, hex_b, icao_a, icao_b, velocity,
                   calculated, input, decoded, pc>>

\* the loop is over: formatted_frames is returned
ScanReturn ==
    /\ pc = "scan"
    /\ pos > Len(bytes)
    /\ pc' = "done"
    /\ UNCHANGED <<bytes, pos, formatted_frames, current_frame,
                   errors_found, entry, line, str_out, message, bits, crc,
                   id13_field, hex_gillham, mode_a, mode_c, num, alt,
                   id_field, squawk, rest, cn, icao, hex_a, hex_b, icao_a,
                   icao_b, velocity, calculated, input, decoded>>

Init ==
    LET \* frames of 260 and 270 accumulated characters, alone and after a valid frame
        LongInputs ==
            {<<42>> \o LongRun \o <<10>>,
             Wrap(LongRun \o <<53, 68, 65, 66, 69, 54, 53, 65, 50, 70>>),
             SegLib[1] \o Wrap(LongRun)}
        Inputs ==
            {Concat(f, 1) : f \in UNION {[1..k -> 1..Len(SegLib)] : k \in 0..MaxFrames}}
            \cup LongInputs
    IN  /\ bytes \in Inputs
        /\ pos = 1
        /\ formatted_frames = ScanInit.formatted_frames
        /\ current_frame = ScanInit.current_frame
        /\ errors_found = ScanInit.errors_found
        /\ entry = ScanInit.entry
        /\ pc = "scan"
        /\ Idle("frames")

Next ==
    \/ ScanCloseFrame
    \/ ScanStartFrame
    \/ ScanPushByte
    \/ ScanSkipByte
    \/ ScanReturn

Spec == Init /\ [][Next]_vars

(***************************************************************************)
(* Claims about the frame extractor                                        *)
(***************************************************************************)
Done == pc = "done"

\* s[from..from+n-1] exists and consists of hex digits
IsHexRun(s, from, n) ==
    /\ from + n - 1 <= Len(s)
    /\ \A i \in from..(from + n - 1) : HexVal(s[i]) >= 0

\* s[i..] starts with `*`, n hex digits, `;`, LF
IsFrameAt(s, i, n) ==
    /\ i + n + 2 <= Len(s)
    /\ s[i] = 42
    /\ IsHexRun(s, i + 1, n)
    /\ s[i + n + 1] = 59
    /\ s[i + n + 2] = 10

\* s[i..] is a concatenation of well-formed frames
RECURSIVE WellFormedFrom(_, _)
WellFormedFrom(s, i) ==
    IF i > Len(s) THEN TRUE
    ELSE \E n \in {14, 28} : IsFrameAt(s, i, n) /\ WellFormedFrom(s, i + n + 3)

\* the hex-decodings of the frames of a well-formed s[i..], in order
RECURSIVE ExpectedFrom(_, _)
ExpectedFrom(s, i) ==
    IF i > Len(s) THEN <<>>
    ELSE LET n == IF IsFrameAt(s, i, 14) THEN 14 ELSE 28
         IN <<HexDecode(SubSeq(s, i + 1, i + n))>> \o ExpectedFrom(s, i + n + 3)

\* the input of test_adsb_raw_parsing_input and the frames it asserts
TestInput == SegLib[1] \o SegLib[2]

TestFrames ==
    << <<93, 171, 230, 90, 47, 191, 175>>,
       <<141, 161, 163, 204, 153, 9, 184, 20, 240, 4, 18, 127, 17, 7>> >>

\* C1: on a concatenation of well-formed frames (`*`, 14 or 28 hex digits,
\* `;`, LF) the extractor returns one byte frame per input frame, each the
\* hex-decoding of that frame's digits, in input order, and records no
\* diagnostic; on the input of the unit test it returns the two asserted frames.
C1_WellFormedExact ==
    Done =>
        /\ WellFormedFrom(bytes, 1) =>
              /\ formatted_frames = ExpectedFrom(bytes, 1)
              /\ errors_found = <<>>
        /\ bytes = TestInput => formatted_frames = TestFrames

C1_Witness ==
    /\ Done
    /\ WellFormedFrom(bytes, 1)
    /\ Len(formatted_frames) = 3
    /\ Len(formatted_frames[1]) = 14
    /\ Len(formatted_frames[2]) = 7

\* s ends with a Mode-A/C frame: `*`, 4 bytes none of which is `*`, `;`, LF, then `;`, LF
EndsWithModeAC(s) ==
    /\ Len(s) >= 7
    /\ s[Len(s) - 6] = 42
    /\ \A i \in (Len(s) - 5)..(Len(s) - 2) : s[i] \notin {42, 59, 10}
    /\ s[Len(s) - 1] = 59
    /\ s[Len(s)] = 10

\* C2: appending a Mode-A/C frame to any input P leaves the emitted frames
\* and the diagnostics those of P.
C2_ModeACDropped ==
    (Done /\ EndsWithModeAC(bytes)) =>
        LET P == format_adsb_raw_frames_from_bytes(SubSeq(bytes, 1, Len(bytes) - 7))
        IN /\ formatted_frames = P.formatted_frames
           /\ errors_found = P.errors_found

\* the unit test's second half: two frames, then *5424;\n
C2_Witness ==
    /\ Done
    /\ bytes = TestInput \o SegLib[4]
    /\ formatted_frames = TestFrames
    /\ errors_found = <<>>

\* an LF is about to close a frame whose length is not 4, 14 or 28
ClosingBadLength ==
    /\ Scanning
    /\ IsClose(locals, bytes[pos])
    /\ Len(current_frame) \notin {4, 14, 28}

\* C3 (as stated): whenever an LF closes a frame whose accumulated length L
\* is not 4, 14 or 28, no frame is emitted and exactly one ByteSequenceWrong
\* diagnostic with size = L is recorded.
C3_BadLengthDiagnostic ==
    [][ClosingBadLength =>
          /\ formatted_frames' = formatted_frames
          /\ errors_found' = Append(errors_found,
                                    ByteSequenceWrong(Len(current_frame)))]_vars

\* s ends with `*`, n hex digits, `;`, LF
EndsWithFrame(s, n) == Len(s) >= n + 3 /\ IsFrameAt(s, Len(s) - n - 2, n)

\* C4: errors in earlier frames never suppress later frames: extracting
\* P + `*` + H + `;` + LF (H 14 or 28 hex digits) yields the frames of P
\* followed by exactly one more frame, hex-decode(H).
C4_LaterFramesSurvive ==
    Done =>
        \A n \in {14, 28} :
            EndsWithFrame(bytes, n) =>
                LET P == format_adsb_raw_frames_from_bytes(
                             SubSeq(bytes, 1, Len(bytes) - n - 3))
                    H == SubSeq(bytes, Len(bytes) - n - 1, Len(bytes) - 2)
                IN formatted_frames = Append(P.formatted_frames, HexDecode(H))

\* a bad-length frame and a non-hex frame, then a valid frame
C4_Witness ==
    /\ Done
    /\ EndsWithFrame(bytes, 28)
    /\ Len(errors_found) = 2
    /\ errors_found[1].kind = "ByteSequenceWrong"
    /\ errors_found[2].kind = "StringError"
    /\ Len(formatted_frames) = 1

\* the index of the last `*` among s[1..n], 0 when there is none
LastStart(s, n) ==
    IF \E i \in 1..n : s[i] = 42
    THEN CHOOSE i \in 1..n : s[i] = 42 /\ \A j \in (i + 1)..n : s[j] # 42
    ELSE 0

\* b is neither `;` nor LF
NotTerminator(b) == b \notin {59, 10}

\* C21: at every step of the scan the accumulation buffer holds no `;`, no
\* LF and no `*`, and it is exactly the bytes other than `;` and LF read
\* since the last start marker (since the start of the input when there was
\* none), in input order.
C21_BufferFiltered ==
    pc \in {"scan", "done"} =>
        /\ \A i \in 1..Len(current_frame) : current_frame[i] \notin {59, 10, 42}
        /\ current_frame =
              SelectSeq(SubSeq(bytes, LastStart(bytes, pos - 1) + 1, pos - 1),
                        NotTerminator)

\* a `;` has just been read after 14 accumulated bytes and was not copied,
\* in a second frame of the input
C21_Witness ==
    /\ pc = "scan"
    /\ pos > 20
    /\ bytes[pos - 1] = 59
    /\ Len(current_frame) = 14
    /\ entry = 2

\* the step emits a frame
Emits == Len(formatted_frames') = Len(formatted_frames) + 1

\* the bytes read since the last start marker, the byte at pos not included
SinceStart == SubSeq(bytes, LastStart(bytes, pos - 1) + 1, pos - 1)

NotFinish(b) == b # 59

RECURSIVE CountStarts(_, _)
CountStarts(s, n) ==
    IF n = 0 THEN 0
    ELSE CountStarts(s, n - 1) + (IF s[n] = 42 THEN 1 ELSE 0)

\* C27 (as stated): each start marker gives rise to at most one emitted
\* frame: the number of frames emitted by format_adsb_raw_frames_from_bytes
\* is at most the number of `*` bytes in the input.
C27_OneFramePerStart ==
    Done => Len(formatted_frames) <= CountStarts(bytes, Len(bytes))

(***************************************************************************)
(* format_adsb_raw_frame_from_str                                          *)
(* A &str is the sequence of its characters.                               *)
(***************************************************************************)
\* str::trim_start_matches(c): every leading occurrence of c is removed
RECURSIVE TrimStartMatches(_, _)
TrimStartMatches(s, c) ==
    IF s # <<>> /\ s[1] = c THEN TrimStartMatches(Tail(s), c) ELSE s

\* str::trim_end_matches(|c| ...): every trailing character in cs is removed
RECURSIVE TrimEndMatches(_, _)
TrimEndMatches(s, cs) ==
    IF s # <<>> /\ s[Len(s)] \in cs
    THEN TrimEndMatches(SubSeq(s, 1, Len(s) - 1), cs)
    ELSE s

\* mutant: the closure forgets the LF
FormatFromStrNoLF(l) ==
    TrimEndMatches(TrimStartMatches(l, 42), {59})

format_adsb_raw_frame_from_str(l) ==
    TrimEndMatches(TrimStartMatches(l, 42), {59, 10})

\* the lines explored: every string of at most MaxLineLen characters over
\* `*`, `;`, LF, `A`, `5`
MaxLineLen == 5

FormatFrameFromStr ==
    /\ pc = "call"
    /\ str_out' = format_adsb_raw_frame_from_str(line)
    /\ pc' = "returned"
    /\ UNCHANGED <<bytes, pos, formatted_frames, current_frame,
                   errors_found, entry, line, message, bits, crc,
                   id13_field, hex_gillham, mode_a, mode_c, num, alt,
                   id_field, squawk, rest, cn, icao, hex_a, hex_b, icao_a,
                   icao_b, velocity, calculated, input, decoded>>

InitStr ==
    LET LineChars == {42, 59, 10, 65, 53}
        Lines == UNION {[1..k -> LineChars] : k \in 0..MaxLineLen}
    IN  /\ line \in Lines
        /\ str_out = <<>>
        /\ pc = "call"
        /\ Idle("str")

NextStr == FormatFrameFromStr

SpecStr == InitStr /\ [][NextStr]_vars

\* a body that does not begin with `*` and does not end with `;` or LF
PlainBody(b) ==
    b = <<>> \/ (b[1] # 42 /\ b[Len(b)] \notin {59, 10})

\* l is `*` + body + tail
IsWrapped(l, tail) ==
    /\ Len(l) >= 1 + Len(tail)
    /\ l[1] = 42
    /\ SubSeq(l, Len(l) - Len(tail) + 1, Len(l)) = tail

\* C5: for every body that does not begin with `*` and does not end with `;`
\* or LF, the function applied to `*` body `;` and to `*` body `;` LF
\* returns exactly body.
C5_StripsWrapper ==
    pc = "returned" =>
        \A tail \in {<<59>>, <<59, 10>>} :
            LET body == SubSeq(line, 2, Len(line) - Len(tail))
            IN (IsWrapped(line, tail) /\ PlainBody(body)) => str_out = body

\* *A;\n with a one-character body
C5_Witness ==
    /\ pc = "returned"
    /\ IsWrapped(line, <<59, 10>>)
    /\ Len(line) = 4
    /\ PlainBody(SubSeq(line, 2, 2))
    /\ str_out = <<line[2]>>

\* l without one leading `*`, if it has one
StripOneStart(l) == IF l # <<>> /\ l[1] = 42 THEN Tail(l) ELSE l

\* l without one trailing `;`, or one trailing `;` LF, if it has one
StripOneEnd(l) ==
    IF l # <<>> /\ l[Len(l)] = 59 THEN SubSeq(l, 1, Len(l) - 1)
    ELSE IF Len(l) >= 2 /\ l[Len(l) - 1] = 59 /\ l[Len(l)] = 10
    THEN SubSeq(l, 1, Len(l) - 2)
    ELSE l

\* C23 (as stated): format_adsb_raw_frame_from_str removes at most one
\* leading `*` and at most one trailing `;` (optionally followed by one
\* LF), and leaves any further `*`, `;` or LF of the line in the result.
C23_StripsSingleWrapper ==
    pc = "returned" => str_out = StripOneEnd(StripOneStart(line))

(***************************************************************************)
(* modes_checksum                                                          *)
(***************************************************************************)
\* CRC_TABLE[i + 1] is the source's CRC_TABLE[i]
CRC_TABLE == <<
    \h000000, \hFFF409, \h001C1B, \hFFE812, \h003836, \hFFCC3F, \h00242D, \hFFD024,
    \h00706C, \hFF8465, \h006C77, \hFF987E, \h00485A, \hFFBC53, \h005441, \hFFA048,
    \h00E0D8, \hFF14D1, \h00FCC3, \hFF08CA, \h00D8EE, \hFF2CE7, \h00C4F5, \hFF30FC,
    \h0090B4, \hFF64BD, \h008CAF, \hFF78A6, \h00A882, \hFF5C8B, \h00B499, \hFF4090,
    \h01C1B0, \hFE35B9, \h01DDAB, \hFE29A2, \h01F986, \hFE0D8F, \h01E59D, \hFE1194,
    \h01B1DC, \hFE45D5, \h01ADC7, \hFE59CE, \h0189EA, \hFE7DE3, \h0195F1, \hFE61F8,
    \h012168, \hFED561, \h013D73, \hFEC97A, \h01195E, \hFEED57, \h010545, \hFEF14C,
    \h015104, \hFEA50D, \h014D1F, \hFEB916, \h016932, \hFE9D3B, \h017529, \hFE8120,
    \h038360, \hFC7769, \h039F7B, \hFC6B72, \h03BB56, \hFC4F5F, \h03A74D, \hFC5344,
    \h03F30C, \hFC0705, \h03EF17, \hFC1B1E, \h03CB3A, \hFC3F33, \h03D721, \hFC2328,
    \h0363B8, \hFC97B1, \h037FA3, \hFC8BAA, \h035B8E, \hFCAF87, \h034795, \hFCB39C,
    \h0313D4, \hFCE7DD, \h030FCF, \hFCFBC6, \h032BE2, \hFCDFEB, \h0337F9, \hFCC3F0,
    \h0242D0, \hFDB6D9, \h025ECB, \hFDAAC2, \h027AE6, \hFD8EEF, \h0266FD, \hFD92F4,
    \h0232BC, \hFDC6B5, \h022EA7, \hFDDAAE, \h020A8A, \hFDFE83, \h021691, \hFDE298,
    \h02A208, \hFD5601, \h02BE13, \hFD4A1A, \h029A3E, \hFD6E37, \h028625, \hFD722C,
    \h02D264, \hFD266D, \h02CE7F, \hFD3A76, \h02EA52, \hFD1E5B, \h02F649, \hFD0240,
    \h0706C0, \hF8F2C9, \h071ADB, \hF8EED2, \h073EF6, \hF8CAFF, \h0722ED, \hF8D6E4,
    \h0776AC, \hF882A5, \h076AB7, \hF89EBE, \h074E9A, \hF8BA93, \h075281, \hF8A688,
    \h07E618, \hF81211, \h07FA03, \hF80E0A, \h07DE2E, \hF82A27, \h07C235, \hF8363C,
    \h079674, \hF8627D, \h078A6F, \hF87E66, \h07AE42, \hF85A4B, \h07B259, \hF84650,
    \h06C770, \hF93379, \h06DB6B, \hF92F62, \h06FF46, \hF90B4F, \h06E35D, \hF91754,
    \h06B71C, \hF94315, \h06AB07, \hF95F0E, \h068F2A, \hF97B23, \h069331, \hF96738,
    \h0627A8, \hF9D3A1, \h063BB3, \hF9CFBA, \h061F9E, \hF9EB97, \h060385, \hF9F78C,
    \h0657C4, \hF9A3CD, \h064BDF, \hF9BFD6, \h066FF2, \hF99BFB, \h0673E9, \hF987E0,
    \h0485A0, \hFB71A9, \h0499BB, \hFB6DB2, \h04BD96, \hFB499F, \h04A18D, \hFB5584,
    \h04F5CC, \hFB01C5, \h04E9D7, \hFB1DDE, \h04CDFA, \hFB39F3, \h04D1E1, \hFB25E8,
    \h046578, \hFB9171, \h047963, \hFB8D6A, \h045D4E, \hFBA947, \h044155, \hFBB55C,
    \h041514, \hFBE11D, \h04090F, \hFBFD06, \h042D22, \hFBD92B, \h043139, \hFBC530,
    \h054410, \hFAB019, \h05580B, \hFAAC02, \h057C26, \hFA882F, \h05603D, \hFA9434,
    \h05347C, \hFAC075, \h052867, \hFADC6E, \h050C4A, \hFAF843, \h051051, \hFAE458,
    \h05A4C8, \hFA50C1, \h05B8D3, \hFA4CDA, \h059CFE, \hFA68F7, \h0580E5, \hFA74EC,
    \h05D4A4, \hFA20AD, \h05C8BF, \hFA3CB6, \h05EC92, \hFA189B, \h05F089, \hFA0480
>>

MODES_LONG_MSG_BYTES == 14
MODES_SHORT_MSG_BYTES == 7

\* message[i] with the slice's 0-based index
At(msg, i) == msg[i + 1]

\* mutant: the table index is taken from the low byte of rem, not the high one
CrcStepLowByteIndex(rem, b) ==
    LET shifted == (rem % 65536) * 256
        idx == BitXor(b, BitAnd(rem, \h000000FF))
    IN BitAnd(BitXor(shifted, CRC_TABLE[idx + 1]), \h00FFFFFF)

\* one iteration of the loop: rem after byte b.  rem is below 2^24, so
\* rem << 8 does not overflow a u32; its bits 24..31 are cleared by the mask
\* of the next statement and are left out of the shift here (TLC's integers
\* end at 2^31 - 1).
CrcStep(rem, b) ==
    LET shifted == (rem % 65536) * 256
        idx == BitXor(b, BitAnd(rem, \h00FF0000) \div 65536)
    IN BitAnd(BitXor(shifted, CRC_TABLE[idx + 1]), \h00FFFFFF)

\* for i in 0..stop, starting at i with remainder rem
RECURSIVE CrcLoop(_, _, _, _)
CrcLoop(msg, rem, i, stop) ==
    IF i >= stop THEN rem
    ELSE CrcLoop(msg, CrcStep(rem, At(msg, i)), i + 1, stop)

\* mutant: the last byte of the message is left out of the xor term
XorTermNoLowByte(msg, n) ==
    BitXor(At(msg, n - 3) * 65536, At(msg, n - 2) * 256)

\* msg_1 ^ msg_2 ^ msg_3
XorTerm(msg, n) ==
    BitXor(BitXor(At(msg, n - 3) * 65536, At(msg, n - 2) * 256), At(msg, n - 1))

\* the 0-based indices the function reads when its guard lets n through
ModesReads(n) == (0..(n - 4)) \cup {n - 3, n - 2, n - 1}

\* mutant: the length test is off by one
ModesGuardOffByOne(msg, n) == n < 3 \/ Len(msg) < n - 1

\* (n < 3) || (message.len() < n)
ModesGuard(msg, n) == n < 3 \/ Len(msg) < n

\* Result<u32, DekuError>; an index outside the slice panics
modes_checksum(msg, nbits) ==
    LET n == nbits \div 8 IN
    IF ModesGuard(msg, n) THEN [kind |-> "Incomplete", value |-> 0]
    ELSE IF \E i \in ModesReads(n) : i < 0 \/ i >= Len(msg)
    THEN [kind |-> "Panic", value |-> 0]
    ELSE [kind |-> "Ok",
          value |-> BitXor(CrcLoop(msg, 0, 0, n - 3), XorTerm(msg, n))]

ModesChecksum ==
    /\ pc = "call"
    /\ crc' = modes_checksum(message, bits)
    /\ pc' = "returned"
    /\ UNCHANGED <<bytes, pos, formatted_frames, current_frame,
                   errors_found, entry, line, str_out, message, bits,
                   id13_field, hex_gillham, mode_a, mode_c, num, alt,
                   id_field, squawk, rest, cn, icao, hex_a, hex_b, icao_a,
                   icao_b, velocity, calculated, input, decoded>>

InitCrc ==
    LET \* The messages explored: the prefixes of three 15-byte sequences (two
        \* frames of the test suite, padded, and zeros), and every value of the first
        \* byte of a 4-byte and of a 7-byte message.
        CrcBases == <<
            <<141, 161, 163, 204, 153, 9, 184, 20, 240, 4, 18, 127, 17, 7, 90>>,
            <<93, 171, 230, 90, 47, 191, 175, 255, 0, 128, 1, 254, 85, 170, 1>>,
            [i \in 1..(MODES_LONG_MSG_BYTES + 1) |-> 0]
        >>
        CrcMessages ==
            {SubSeq(CrcBases[b], 1, k) : b \in 1..Len(CrcBases), k \in 0..(MODES_LONG_MSG_BYTES + 1)}
            \cup {<<b, 0, 0, 0>> : b \in 0..255}
            \cup {<<b, 171, 230, 90, 47, 191, 175>> : b \in 0..255}
        CrcBitLens ==
            {0, 16, 23, 24, 31, 32, 40, MODES_SHORT_MSG_BYTES * 8, 60,
             MODES_LONG_MSG_BYTES * 8, 120}
    IN  /\ message \in CrcMessages
        /\ bits \in CrcBitLens
        /\ crc = NoResult
        /\ pc = "call"
        /\ Idle("crc")

NextCrc == ModesChecksum

SpecCrc == InitCrc /\ [][NextCrc]_vars

\* C6: Incomplete is returned exactly when bits/8 < 3 or the message has
\* fewer than bits/8 bytes; in every other case a value is returned and no
\* index outside the message is read.
C6_IncompleteExactly ==
    pc = "returned" =>
        /\ crc.kind = "Incomplete" <=> (bits \div 8 < 3 \/ Len(message) < bits \div 8)
        /\ crc.kind # "Incomplete" => crc.kind = "Ok"

\* a message of exactly bits/8 bytes: every byte is read, none outside
C6_Witness ==
    /\ pc = "returned"
    /\ crc.kind = "Ok"
    /\ Len(message) = bits \div 8
    /\ bits = 32

\* the Mode S generator polynomial, 25 bits
ModeSGenerator == \h1FFF409

\* bit k (0 = first, most significant bit of byte 0) of the first nb bytes
\* of msg, followed by 24 zero bits
DividendBit(msg, nb, k) ==
    IF k < 8 * nb THEN Bit(msg[(k \div 8) + 1], 7 - (k % 8)) ELSE 0

\* one step of long division over GF(2): bring down a bit, subtract the
\* generator when the degree reaches 24
DivideBit(rem, b) ==
    LET r == 2 * rem + b
    IN IF r >= 2 ^ 24 THEN BitXor(r, ModeSGenerator) ELSE r

\* the dividend bits lo..hi brought down in order (the range is halved, and
\* the remainder after the first half computed before the second is entered)
RECURSIVE DivideRange(_, _, _, _, _)
DivideRange(msg, nb, lo, hi, rem) ==
    IF lo > hi THEN rem
    ELSE IF lo = hi THEN DivideBit(rem, DividendBit(msg, nb, lo))
    ELSE LET mid == (lo + hi) \div 2
             half == DivideRange(msg, nb, lo, mid, rem)
         IN IF half >= 0 THEN DivideRange(msg, nb, mid + 1, hi, half) ELSE half

\* the remainder of (the first nb bytes of msg) * x^24 divided by the generator
LongDivision(msg, nb) == DivideRange(msg, nb, 0, 8 * nb + 23, 0)

\* the last 3 of the first n bytes, big-endian
Last3(msg, n) == 65536 * msg[n - 2] + 256 * msg[n - 1] + msg[n]

\* C7: for n = bits/8 >= 3 the table-driven checksum equals the remainder
\* of the bitwise division of the first n-3 bytes by the Mode S generator,
\* XORed with the last 3 of the n bytes as a big-endian integer, and is
\* below 2^24.
C7_TableMatchesPolynomial ==
    (pc = "returned" /\ crc.kind = "Ok") =>
        LET n == bits \div 8 IN
        /\ crc.value = BitXor(LongDivision(message, n - 3), Last3(message, n))
        /\ crc.value < 2 ^ 24

\* a long message whose checksum is not just its last three bytes
C7_Witness ==
    /\ pc = "returned"
    /\ crc.kind = "Ok"
    /\ bits = MODES_LONG_MSG_BYTES * 8
    /\ crc.value # Last3(message, MODES_LONG_MSG_BYTES)
    /\ crc.value # 0

\* msg with bit k (0 = most significant bit of byte 0) inverted
FlipBit(msg, k) ==
    [msg EXCEPT ![(k \div 8) + 1] = BitXor(@, 2 ^ (7 - (k % 8)))]

\* C8 (as stated): whenever modes_checksum succeeds, changing any single bit
\* of the input message changes the returned checksum.
C8_AnyBitFlipChanges ==
    (pc = "returned" /\ crc.kind = "Ok") =>
        \A k \in 0..(8 * Len(message) - 1) :
            modes_checksum(FlipBit(message, k), bits) # crc

\* C8 (amended): whenever modes_checksum succeeds, changing any single bit
\* among the first bits/8 bytes of the message changes the returned checksum.
C8_CoveredBitFlipChanges ==
    (pc = "returned" /\ crc.kind = "Ok") =>
        \A k \in 0..(8 * (bits \div 8) - 1) :
            modes_checksum(FlipBit(message, k), bits) # crc

\* a full long frame, all of it covered by the bit length
C8_Witness ==
    /\ pc = "returned"
    /\ crc.kind = "Ok"
    /\ Len(message) = MODES_LONG_MSG_BYTES
    /\ bits = MODES_LONG_MSG_BYTES * 8
    /\ message[1] = 141

(***************************************************************************)
(* decode_id13_field                                                       *)
(***************************************************************************)
\* mutant: the commented-out line for bit 6 (X or M) is compiled in
Id13BitsWithX == <<
    <<\h1000, \h0010>>, <<\h0800, \h1000>>, <<\h0400, \h0020>>,
    <<\h0200, \h2000>>, <<\h0100, \h0040>>, <<\h0080, \h4000>>,
    <<\h0040, \h0800>>,
    <<\h0020, \h0100>>, <<\h0010, \h0001>>, <<\h0008, \h0200>>,
    <<\h0004, \h0002>>, <<\h0002, \h0400>>, <<\h0001, \h0004>>
>>

\* the `if id13_field & mask != 0 { hex_gillham |= out }` statements, in order
Id13Bits == <<
    <<\h1000, \h0010>>,     \* Bit 12 = C1
    <<\h0800, \h1000>>,     \* Bit 11 = A1
    <<\h0400, \h0020>>,     \* Bit 10 = C2
    <<\h0200, \h2000>>,     \* Bit  9 = A2
    <<\h0100, \h0040>>,     \* Bit  8 = C4
    <<\h0080, \h4000>>,     \* Bit  7 = A4
    <<\h0020, \h0100>>,     \* Bit  5 = B1
    <<\h0010, \h0001>>,     \* Bit  4 = D1 or Q
    <<\h0008, \h0200>>,     \* Bit  3 = B2
    <<\h0004, \h0002>>,     \* Bit  2 = D2
    <<\h0002, \h0400>>,     \* Bit  1 = B4
    <<\h0001, \h0004>>      \* Bit  0 = D4
>>

\* statements i.. of the list applied to the accumulator acc
RECURSIVE OrBits(_, _, _, _)
OrBits(x, tab, i, acc) ==
    IF i > Len(tab) THEN acc
    ELSE OrBits(x, tab, i + 1,
                IF BitAnd(x, tab[i][1]) # 0 THEN BitOr(acc, tab[i][2]) ELSE acc)

decode_id13_field(x) == OrBits(x, Id13Bits, 1, 0)

DecodeId13Field ==
    /\ pc = "call"
    /\ hex_gillham' = decode_id13_field(id13_field)
    /\ pc' = "returned"
    /\ UNCHANGED <<bytes, pos, formatted_frames, current_frame,
                   errors_found, entry, line, str_out, message, bits, crc,
                   id13_field, mode_a, mode_c, num, alt, id_field, squawk,
                   rest, cn, icao, hex_a, hex_b, icao_a, icao_b, velocity,
                   calculated, input, decoded>>

InitId13 ==
    LET \* the arguments explored: every 13-bit value, alone and below two settings
        \* of the bits 13..30 of the u32
        Id13Inputs == {lo + 8192 * hi : lo \in 0..8191, hi \in {0, 1, 2 ^ 18 - 1}}
    IN  /\ id13_field \in Id13Inputs
        /\ hex_gillham = 0
        /\ pc = "call"
        /\ Idle("id13")

NextId13 == DecodeId13Field

SpecId13 == InitId13 /\ [][NextId13]_vars

\* source bit -> destination bit
GillhamPairs ==
    {<<12, 4>>, <<11, 12>>, <<10, 5>>, <<9, 13>>, <<8, 6>>, <<7, 14>>,
     <<5, 8>>, <<4, 0>>, <<3, 9>>, <<2, 1>>, <<1, 10>>, <<0, 2>>}

\* C9: decode_id13_field is the fixed bit permutation 12->4, 11->12, 10->5,
\* 9->13, 8->6, 7->14, 5->8, 4->0, 3->9, 2->1, 1->10, 0->2: destination bit
\* d is set iff its source bit is set, every other destination bit (3, 7,
\* 11, 15 and above) is 0, and source bit 6 and the bits above 12 have no
\* influence on the result.
C9_GillhamPermutation ==
    pc = "returned" =>
        /\ \A p \in GillhamPairs : Bit(hex_gillham, p[2]) = Bit(id13_field, p[1])
        /\ \A d \in {3, 7, 11} : Bit(hex_gillham, d) = 0
        /\ hex_gillham < 2 ^ 15
        /\ decode_id13_field(BitXor(id13_field, 64)) = hex_gillham
        /\ decode_id13_field(id13_field % 8192) = hex_gillham

\* all thirteen low bits set, and bits above 12 set as well
C9_Witness ==
    /\ pc = "returned"
    /\ id13_field % 8192 = 8191
    /\ id13_field > 8192
    /\ hex_gillham = \h7777

(***************************************************************************)
(* mode_a_to_mode_c                                                        *)
(***************************************************************************)
\* mutant: D1 (bit 0) is not among the bits that must be zero
ModeAInvalidAllowsD1(m) ==
    \/ m \div 65536 # 0
    \/ BitAnd(m % 65536, \h8888) # 0
    \/ BitAnd(m, \h00F0) = 0

\* (mode_a & 0xffff_8889) != 0 || (mode_a & 0x0000_00f0) == 0
\* (the mask does not fit TLC's integers: its upper half, 0xffff, selects
\* the whole upper half of mode_a, its lower half is 0x8889)
ModeAInvalid(m) ==
    \/ m \div 65536 # 0
    \/ BitAnd(m % 65536, \h8889) # 0
    \/ BitAnd(m, \h00F0) = 0

\* the `if mode_a & mask != 0 { acc ^= term }` statements, in order
OneHundredsTerms == <<
    <<\h0010, \h007>>,      \* C1
    <<\h0020, \h003>>,      \* C2
    <<\h0040, \h001>>       \* C4
>>

FiveHundredsTerms == <<
    <<\h0002, \h0FF>>,      \* D2
    <<\h0004, \h07F>>,      \* D4
    <<\h1000, \h03F>>,      \* A1
    <<\h2000, \h01F>>,      \* A2
    <<\h4000, \h00F>>,      \* A4
    <<\h0100, \h007>>,      \* B1
    <<\h0200, \h003>>,      \* B2
    <<\h0400, \h001>>       \* B4
>>

RECURSIVE XorTerms(_, _, _, _)
XorTerms(x, tab, i, acc) ==
    IF i > Len(tab) THEN acc
    ELSE XorTerms(x, tab, i + 1,
                  IF BitAnd(x, tab[i][1]) # 0 THEN BitXor(acc, tab[i][2]) ELSE acc)

InvalidAltitude == [kind |-> "Err", value |-> 0]

\* mutant: the one_hundreds range check (only 1 to 5 are valid) is left out
mode_a_to_mode_c_NoRangeCheck(m) ==
    IF ModeAInvalid(m) THEN InvalidAltitude
    ELSE
      LET oh1 == XorTerms(m, OneHundredsTerms, 1, 0)
          oh2 == IF BitAnd(oh1, 5) = 5 THEN BitXor(oh1, 2) ELSE oh1
          fh == XorTerms(m, FiveHundredsTerms, 1, 0)
          oh3 == IF BitAnd(fh, 1) # 0 /\ oh2 <= 6 THEN 6 - oh2 ELSE oh2
          n == (fh * 5) + oh3
      IN IF n >= 13 THEN [kind |-> "Ok", value |-> n - 13]
         ELSE InvalidAltitude

\* Result<u32, &'static str>
mode_a_to_mode_c(m) ==
    IF ModeAInvalid(m) THEN InvalidAltitude
    ELSE
      LET oh1 == XorTerms(m, OneHundredsTerms, 1, 0)
          \* Remove 7s from OneHundreds
          oh2 == IF BitAnd(oh1, 5) = 5 THEN BitXor(oh1, 2) ELSE oh1
      IN IF oh2 > 5 THEN InvalidAltitude
         ELSE
           LET fh == XorTerms(m, FiveHundredsTerms, 1, 0)
               \* Correct order of one_hundreds
               oh3 == IF BitAnd(fh, 1) # 0 /\ oh2 <= 6 THEN 6 - oh2 ELSE oh2
               n == (fh * 5) + oh3
           IN IF n >= 13 THEN [kind |-> "Ok", value |-> n - 13]
              ELSE InvalidAltitude

ModeAToModeC ==
    /\ pc = "call"
    /\ mode_c' = mode_a_to_mode_c(mode_a)
    /\ pc' = "returned"
    /\ UNCHANGED <<bytes, pos, formatted_frames, current_frame,
                   errors_found, entry, line, str_out, message, bits, crc,
                   id13_field, hex_gillham, mode_a, num, alt, id_field,
                   squawk, rest, cn, icao, hex_a, hex_b, icao_a, icao_b,
                   velocity, calculated, input, decoded>>

InitMode ==
    LET \* the arguments explored: every 16-bit value, alone and below two settings
        \* of the bits 16..30 of the u32
        ModeAInputs == {lo + 65536 * hi : lo \in 0..65535, hi \in {0, 1, 2 ^ 15 - 1}}
    IN  /\ mode_a \in ModeAInputs
        /\ mode_c = NoResult
        /\ pc = "call"
        /\ Idle("mode")

NextMode == ModeAToModeC

SpecMode == InitMode /\ [][NextMode]_vars

\* the bits of mask 0xFFFF8889 that a model value can hold, and the C bits
ReservedBits == {0, 3, 7, 11} \cup (15..30)

CBits == {4, 5, 6, 7}

\* C10: mode_a_to_mode_c returns an error for every input that has any bit
\* of mask 0xFFFF8889 set, and for every input that has no bit of mask
\* 0x000000F0 set.
C10_ReservedOrNoCBitFails ==
    pc = "returned" =>
        /\ (\E k \in ReservedBits : Bit(mode_a, k) = 1) => mode_c.kind = "Err"
        /\ (\A k \in CBits : Bit(mode_a, k) = 0) => mode_c.kind = "Err"

\* A4, C1 and D1 set: the code is valid but for the reserved bit 0
C10_Witness ==
    /\ pc = "returned"
    /\ mode_a = \h4011
    /\ mode_c.kind = "Err"
    /\ mode_a_to_mode_c(\h4010) = [kind |-> "Ok", value |-> 63]

\* the codes that have none of the bits of mask 0xFFFF8889 set: the pulses
\* A, B and C (three bits each) and D2, D4
GillhamCodes ==
    {a * 4096 + b * 256 + c * 16 + d * 2 : a \in 0..7, b \in 0..7, c \in 0..7, d \in 0..3}

\* the result of mode_a_to_mode_c for each of them
ModeCTable == [g \in GillhamCodes |-> mode_a_to_mode_c(g)]

\* the counts that mode_a_to_mode_c returns
ModeCImage == {ModeCTable[g].value : g \in {h \in GillhamCodes : ModeCTable[h].kind = "Ok"}}

\* C29: mode_a_to_mode_c is injective on the inputs it accepts and maps
\* them onto the contiguous range 0..=1267: no other code converts to the
\* count returned for an accepted code, and every count of the range is
\* returned for some code.
C29_ModeCBijection ==
    (pc = "returned" /\ mode_c.kind = "Ok") =>
        /\ mode_a \in GillhamCodes
        /\ mode_c.value \in 0..1267
        /\ \A g \in GillhamCodes \ {mode_a} : ModeCTable[g] # mode_c
        /\ ModeCImage = 0..1267

\* C4 and D2 alone: the highest count
C29_Witness ==
    /\ pc = "returned"
    /\ mode_a = \h0042
    /\ mode_c = [kind |-> "Ok", value |-> 1267]
    /\ \E g \in GillhamCodes : ModeCTable[g] = [kind |-> "Ok", value |-> 0]

(***************************************************************************)
(* The altitude field decoders: Altitude::read (12 bits, extended squitter *)
(* position) and AC13Field::read (13 bits, surveillance replies).          *)
(***************************************************************************)
\* Option<u16> and u16 values
OptionNone == [kind |-> "Option::None", value |-> 0]

OptionSome(v) == [kind |-> "Option::Some", value |-> v]

U16(v) == [kind |-> "u16", value |-> v]

\* u16::try_from(v).ok()
TryFromU16(v) == IF v <= 65535 THEN OptionSome(v) ELSE OptionNone

\* v as u16
AsU16(v) == U16(v % 65536)

Altitude_read_Propagates(x) ==
    LET q == BitAnd(x, \h10)
    IN IF q > 0
       THEN LET n == BitOr(BitAnd(x, \h0fe0) \div 2, BitAnd(x, \h000f)) * 25
            IN IF n > 1000 THEN TryFromU16(n - 1000) ELSE OptionNone
       ELSE LET n == BitOr(BitAnd(x, \h0fc0) * 2, BitAnd(x, \h003f))
                r == mode_a_to_mode_c(decode_id13_field(n))
            IN IF r.kind = "Ok" THEN TryFromU16(r.value * 100) ELSE r

\* decodeAC12Field
Altitude_read(x) ==
    LET q == BitAnd(x, \h10)
    IN IF q > 0
       THEN LET n == BitOr(BitAnd(x, \h0fe0) \div 2, BitAnd(x, \h000f)) * 25
            IN IF n > 1000 THEN TryFromU16(n - 1000) ELSE OptionNone
       ELSE LET n == BitOr(BitAnd(x, \h0fc0) * 2, BitAnd(x, \h003f))
                r == mode_a_to_mode_c(decode_id13_field(n))
            IN IF r.kind = "Ok" THEN TryFromU16(r.value * 100) ELSE OptionNone

AC13Field_read(x) ==
    LET m_bit == BitAnd(x, \h0040)
        q_bit == BitAnd(x, \h0010)
    IN IF m_bit # 0 THEN U16(0)
       ELSE IF q_bit # 0
       THEN LET n == BitOr(BitOr(BitAnd(x, \h1f80) \div 4, BitAnd(x, \h0020) \div 2),
                           BitAnd(x, \h000f)) * 25
            IN IF n > 1000 THEN AsU16(n - 1000) ELSE U16(0)
       ELSE LET r == mode_a_to_mode_c(decode_id13_field(x))
            IN IF r.kind = "Ok" THEN AsU16(100 * r.value) ELSE U16(0)

AltitudeRead ==
    /\ pc = "call"
    /\ num < 4096
    /\ alt' = Altitude_read(num)
    /\ pc' = "Altitude::read"
    /\ UNCHANGED <<bytes, pos, formatted_frames, current_frame,
                   errors_found, entry, line, str_out, message, bits, crc,
                   id13_field, hex_gillham, mode_a, mode_c, num, id_field,
                   squawk, rest, cn, icao, hex_a, hex_b, icao_a, icao_b,
                   velocity, calculated, input, decoded>>

AC13FieldRead ==
    /\ pc = "call"
    /\ alt' = AC13Field_read(num)
    /\ pc' = "AC13Field::read"
    /\ UNCHANGED <<bytes, pos, formatted_frames, current_frame,
                   errors_found, entry, line, str_out, message, bits, crc,
                   id13_field, hex_gillham, mode_a, mode_c, num, id_field,
                   squawk, rest, cn, icao, hex_a, hex_b, icao_a, icao_b,
                   velocity, calculated, input, decoded>>

InitAlt ==
    LET \* the fields explored: every 13-bit value; the 12-bit reader sees those
        \* below 2^12
        AltInputs == 0..8191
    IN  /\ num \in AltInputs
        /\ alt = NoResult
        /\ pc = "call"
        /\ Idle("alt")

NextAlt == AltitudeRead \/ AC13FieldRead

SpecAlt == InitAlt /\ [][NextAlt]_vars

\* the 11-bit value N of a 13-bit field: its bits other than M (6) and Q (4)
Q13Bits == <<0, 1, 2, 3, 5, 7, 8, 9, 10, 11, 12>>

RECURSIVE Q13Sum(_, _)
Q13Sum(x, i) ==
    IF i > Len(Q13Bits) THEN 0
    ELSE Bit(x, Q13Bits[i]) * 2 ^ (i - 1) + Q13Sum(x, i + 1)

Q13Value(x) == Q13Sum(x, 1)

\* C11: for every 13-bit altitude field with the M bit clear and the Q bit
\* set, N being the 11-bit value of the remaining bits: if N*25 <= 1000 the
\* altitude resolves to None (not to a number, not to an error); if
\* N*25 > 1000 it resolves to N*25 - 1000 feet.
C11_QAltitudeBoundary ==
    (pc = "AC13Field::read" /\ Bit(num, 6) = 0 /\ Bit(num, 4) = 1) =>
        LET n == Q13Value(num) * 25
        IN /\ n <= 1000 => alt.kind = "Option::None"
           /\ n > 1000 => /\ alt.kind \in {"Option::Some", "u16"}
                          /\ alt.value = n - 1000

\* C12: the altitude field decoders are total: for every 12-bit value
\* (Altitude::read) and every 13-bit value (AC13Field::read), M bit set,
\* out-of-range Q values and rejected Gillham codes included, the decode
\* returns a resolved or unresolved altitude and never an error.
C12_AltitudeTotal ==
    pc \in {"Altitude::read", "AC13Field::read"} =>
        alt.kind \in {"Option::Some", "Option::None", "u16"}

\* a Gillham code that mode_a_to_mode_c rejects, read by Altitude::read
C12_Witness ==
    /\ pc = "Altitude::read"
    /\ Bit(num, 4) = 0
    /\ mode_a_to_mode_c(decode_id13_field(
           BitOr(BitAnd(num, \h0fc0) * 2, BitAnd(num, \h003f)))).kind = "Err"
    /\ alt = OptionNone

\* the 13-bit field that the 12-bit field x stands for: an M bit of 0 is
\* put back between its bits 6 and 5
WithMBit(x) == BitOr(BitAnd(x, \h0fc0) * 2, BitAnd(x, \h003f))

\* the 100-ft count of the Gillham-coded 13-bit field x
GillhamCount(x) == mode_a_to_mode_c(decode_id13_field(x))

\* C24 (as stated): in both altitude decoders, whenever the M and Q bits
\* are clear and mode_a_to_mode_c succeeds with result r on the
\* Gillham-decoded field, the decoded altitude is exactly r * 100 feet.
C24_GillhamAltitudeExact ==
    /\ (pc = "AC13Field::read" /\ BitAnd(num, \h0040) = 0 /\ BitAnd(num, \h0010) = 0
        /\ GillhamCount(num).kind = "Ok")
          => alt = U16(100 * GillhamCount(num).value)
    /\ (pc = "Altitude::read" /\ BitAnd(num, \h0010) = 0
        /\ GillhamCount(WithMBit(num)).kind = "Ok")
          => alt = OptionSome(100 * GillhamCount(WithMBit(num)).value)

(***************************************************************************)
(* The identity (squawk) decoders: IdentityCode::read of DF5 and the map   *)
(* closure of the squawk fields of DF21 and of the aircraft status ME.     *)
(***************************************************************************)
Ok(v) == [kind |-> "Ok", value |-> v]

IdentityCode_read_Validated(x) ==
    LET a == Bit(x, 7) * 4 + Bit(x, 9) * 2 + Bit(x, 11)
        b == Bit(x, 1) * 4 + Bit(x, 3) * 2 + Bit(x, 5)
        c == Bit(x, 8) * 4 + Bit(x, 10) * 2 + Bit(x, 12)
        d == Bit(x, 0) * 4 + Bit(x, 2) * 2 + Bit(x, 4)
        v == (a * 4096 + b * 256 + c * 16 + d) % 65536
    IN IF mode_a_to_mode_c(v).kind = "Ok" THEN Ok(v) ELSE InvalidAltitude

IdentityCode_read_Swapped(x) ==
    LET a == Bit(x, 7) * 4 + Bit(x, 9) * 2 + Bit(x, 11)
        b == Bit(x, 1) * 4 + Bit(x, 3) * 2 + Bit(x, 5)
        c == Bit(x, 8) * 4 + Bit(x, 10) * 2 + Bit(x, 12)
        d == Bit(x, 0) * 4 + Bit(x, 2) * 2 + Bit(x, 4)
    IN Ok((a * 4096 + c * 256 + b * 16 + d) % 65536)

IdentityCode_read(x) ==
    LET a == Bit(x, 7) * 4 + Bit(x, 9) * 2 + Bit(x, 11)     \* a4 << 2 | a2 << 1 | a1
        b == Bit(x, 1) * 4 + Bit(x, 3) * 2 + Bit(x, 5)      \* b4 << 2 | b2 << 1 | b1
        c == Bit(x, 8) * 4 + Bit(x, 10) * 2 + Bit(x, 12)    \* c4 << 2 | c2 << 1 | c1
        d == Bit(x, 0) * 4 + Bit(x, 2) * 2 + Bit(x, 4)      \* d4 << 2 | d2 << 1 | d1
    IN Ok((a * 4096 + b * 256 + c * 16 + d) % 65536)

\* |squawk: u32| -> Result<_, DekuError> {Ok(decode_id13_field(squawk))}
squawk_map(x) == Ok(decode_id13_field(x))

IdentityCodeRead ==
    /\ pc = "call"
    /\ squawk' = IdentityCode_read(id_field)
    /\ pc' = "IdentityCode::read"
    /\ UNCHANGED <<bytes, pos, formatted_frames, current_frame,
                   errors_found, entry, line, str_out, message, bits, crc,
                   id13_field, hex_gillham, mode_a, mode_c, num, alt,
                   id_field, rest, cn, icao, hex_a, hex_b, icao_a, icao_b,
                   velocity, calculated, input, decoded>>

SquawkMap ==
    /\ pc = "call"
    /\ squawk' = squawk_map(id_field)
    /\ pc' = "squawk"
    /\ UNCHANGED <<bytes, pos, formatted_frames, current_frame,
                   errors_found, entry, line, str_out, message, bits, crc,
                   id13_field, hex_gillham, mode_a, mode_c, num, alt,
                   id_field, rest, cn, icao, hex_a, hex_b, icao_a, icao_b,
                   velocity, calculated, input, decoded>>

InitId ==
    LET \* the fields explored: every 13-bit value
        IdInputs == 0..8191
    IN  /\ id_field \in IdInputs
        /\ squawk = NoResult
        /\ pc = "call"
        /\ Idle("id")

NextId == IdentityCodeRead \/ SquawkMap

SpecId == InitId /\ [][NextId]_vars

HexDigit(v, k) == (v \div (16 ^ k)) % 16

\* C13: identity/squawk decoding succeeds for all 8192 13-bit input
\* patterns and always yields a value that fits in 16 bits whose four
\* hexadecimal digits are each in 0..7 (no mode_a_to_mode_c validity check
\* is applied to squawks).
C13_SquawkTotalOctal ==
    pc \in {"IdentityCode::read", "squawk"} =>
        /\ squawk.kind = "Ok"
        /\ squawk.value \in 0..65535
        /\ \A k \in 0..3 : HexDigit(squawk.value, k) \in 0..7

\* every pulse set, X bit included: squawk 7777, which is no valid Mode A
\* altitude code
C13_Witness ==
    /\ pc = "IdentityCode::read"
    /\ id_field = 8191
    /\ squawk = Ok(\h7777)
    /\ mode_a_to_mode_c(\h7777).kind = "Err"

\* C28: the two squawk decoders agree: for every 13-bit input,
\* IdentityCode::read (DF5) returns the same value as decode_id13_field
\* (the squawk closure of DF21 and of the aircraft status ME).
C28_SquawkDecodersAgree ==
    pc = "IdentityCode::read" =>
        /\ squawk = squawk_map(id_field)
        /\ squawk.value = decode_id13_field(id_field)

\* the pulses A1, B2, C1, C2 and D4: both decoders give squawk 1234
C28_Witness ==
    /\ pc = "IdentityCode::read"
    /\ id_field = 7177
    /\ squawk = Ok(\h1234)
    /\ decode_id13_field(id_field) = \h1234

(***************************************************************************)
(* Reading bits: a reader is given the frame's bytes f and the offset o    *)
(* (in bits, most significant bit of the first byte first) of the bits     *)
(* that remain, and returns a value and the new offset, or an error.       *)
(***************************************************************************)
\* the bit at offset i of f (BitSlice<u8, Msb0>)
BitAt(f, i) == (f[(i \div 8) + 1] \div (2 ^ (7 - (i % 8)))) % 2

\* the big-endian value of the n bits of f at offset o
RECURSIVE BitsValue(_, _, _)
BitsValue(f, o, n) ==
    IF n = 0 THEN 0 ELSE 2 * BitsValue(f, o, n - 1) + BitAt(f, o + n - 1)

\* Ok((rest, value))
Read(v, o) == [kind |-> "Ok", value |-> v, off |-> o]

\* Err(DekuError::Incomplete), Err(DekuError::Parse), Err(DekuError::Assertion)
DekuError(k) == [kind |-> k, value |-> 0, off |-> 0]

\* a panic (arithmetic overflow, index out of bounds, failed unwrap)
Panic == [kind |-> "Panic", value |-> 0, off |-> 0]

\* <uN>::read(rest, BitSize(n))
ReadBits(f, o, n) ==
    IF o + n > 8 * Len(f) THEN DekuError("Incomplete")
    ELSE Read(BitsValue(f, o, n), o + n)

(***************************************************************************)
(* aircraft_identification_read                                            *)
(***************************************************************************)
CHAR_LOOKUP == <<
    35, 65, 66, 67, 68, 69, 70, 71, 72, 73, 74, 75, 76, 77, 78, 79,
    80, 81, 82, 83, 84, 85, 86, 87, 88, 89, 90, 35, 35, 35, 35, 35,
    32, 35, 35, 35, 35, 35, 35, 35, 35, 35, 35, 35, 35, 35, 35, 35,
    48, 49, 50, 51, 52, 53, 54, 55, 56, 57, 35, 35, 35, 35, 35, 35
>>

PushGroupKeepsSpace(chars, c) == Append(chars, c)

\* if c != 32 { chars.push(c); }
PushGroup(chars, c) == IF c # 32 THEN Append(chars, c) ELSE chars

\* the iterations k.. of `for _ in 0..=6`
RECURSIVE ReadGroups(_, _, _, _)
ReadGroups(f, o, k, chars) ==
    IF k > 6 THEN Read(chars, o)
    ELSE LET c == ReadBits(f, o, 6)
         IN IF c.kind # "Ok" THEN c
            ELSE ReadGroups(f, c.off, k + 1, PushGroup(chars, c.value))

\* .map(|b| CHAR_LOOKUP[b as usize] as char).collect::<String>()
Encoded(chars) ==
    IF \E i \in 1..Len(chars) : chars[i] >= Len(CHAR_LOOKUP) THEN Panic
    ELSE Read([i \in 1..Len(chars) |-> CHAR_LOOKUP[chars[i] + 1]], 0)

aircraft_identification_read(f, o) ==
    LET r == ReadGroups(f, o, 0, <<>>)
    IN IF r.kind # "Ok" THEN r
       ELSE LET e == Encoded(r.value)
            IN IF e.kind # "Ok" THEN e ELSE Read(e.value, r.off)

\* eight 6-bit groups as the 48 bits that follow tc and ca in the ME field
Pack8(g) ==
    LET \* the four 6-bit groups from i on as three bytes
        Pack4(i) ==
            LET v == g[i] * 262144 + g[i + 1] * 4096 + g[i + 2] * 64 + g[i + 3]
            IN <<v \div 65536, (v \div 256) % 256, v % 256>>
    IN  Pack4(1) \o Pack4(5)

\* K, L, 1, 2, 3, 4 and two spaces
KL1234 == <<11, 12, 49, 50, 51, 52, 32, 32>>

\* the payloads explored: KL1234 with every group in turn replaced by
\* every 6-bit value, every mix of KL1234's groups with space and with
\* group 0, and KL1234 cut to five bytes and fewer
IsCallsignPayload(p) ==
    LET \* the group c[i] chooses at position i: KL1234's, a space or group 0
        Choice(c, i) == IF c[i] = 1 THEN KL1234[i] ELSE IF c[i] = 2 THEN 32 ELSE 0
    IN  \/ \E i \in 1..8, g \in 0..63 : p = Pack8([KL1234 EXCEPT ![i] = g])
        \/ \E c \in [1..8 -> 1..3] : p = Pack8([i \in 1..8 |-> Choice(c, i)])
        \/ \E n \in 0..5 : p = SubSeq(Pack8(KL1234), 1, n)

AircraftIdentificationRead ==
    /\ pc = "call"
    /\ cn' = aircraft_identification_read(rest, 0)
    /\ pc' = "returned"
    /\ UNCHANGED <<bytes, pos, formatted_frames, current_frame,
                   errors_found, entry, line, str_out, message, bits, crc,
                   id13_field, hex_gillham, mode_a, mode_c, num, alt,
                   id_field, squawk, rest, icao, hex_a, hex_b, icao_a,
                   icao_b, velocity, calculated, input, decoded>>

InitCs ==
    /\ IsCallsignPayload(rest)
    /\ cn = NoResult
    /\ pc = "call"
    /\ Idle("cs")

NextCs == AircraftIdentificationRead

SpecCs == InitCs /\ [][NextCs]_vars

\* the i-th 6-bit group of a 6-byte payload, by the arithmetic of its
\* 24-bit halves
GroupOf(p, i) ==
    LET h == IF i <= 4 THEN 0 ELSE 3
        w == p[h + 1] * 65536 + p[h + 2] * 256 + p[h + 3]
        j == IF i <= 4 THEN i ELSE i - 4
    IN (w \div (64 ^ (4 - j))) % 64

SevenGroups(p) == [i \in 1..7 |-> GroupOf(p, i)]

NotSpace(g) == g # 32

\* C16: aircraft_identification_read reads seven consecutive 6-bit groups
\* and returns, in order, the character CHAR_LOOKUP[g] for each group g
\* other than 32: the callsign has as many characters as there are groups
\* different from 32 (at most 7), never contains a space, and a payload
\* whose groups spell KL1234 decodes to exactly "KL1234".
C16_CallsignGroups ==
    (pc = "returned" /\ Len(rest) = 6) =>
        LET kept == SelectSeq(SevenGroups(rest), NotSpace)
        IN /\ cn.kind = "Ok"
           /\ cn.off = 42
           /\ cn.value = [i \in 1..Len(kept) |-> CHAR_LOOKUP[kept[i] + 1]]
           /\ Len(cn.value) = Cardinality({i \in 1..7 : GroupOf(rest, i) # 32})
           /\ Len(cn.value) <= 7
           /\ \A i \in 1..Len(cn.value) : cn.value[i] # 32
           /\ SevenGroups(rest) = SubSeq(KL1234, 1, 7)
                  => cn.value = <<75, 76, 49, 50, 51, 52>>

\* the payload of the KLM1023 identification test frame's shape: KL1234
C16_Witness ==
    /\ pc = "returned"
    /\ rest = Pack8(KL1234)
    /\ cn = Read(<<75, 76, 49, 50, 51, 52>>, 42)

(***************************************************************************)
(* ICAO: Display and FromStr.  Strings are sequences of character codes.   *)
(***************************************************************************)
\* the lower-case hexadecimal digit of a nibble ({:x})
LowerHex(n) == IF n < 10 THEN 48 + n ELSE 87 + n

\* {:02x}
Hex02(b) == <<LowerHex(b \div 16), LowerHex(b % 16)>>

\* impl Display for ICAO
ICAO_fmt(i) == Hex02(i[1]) \o Hex02(i[2]) \o Hex02(i[3])

\* char::to_digit(16): -1 stands for None
ToDigit(c) ==
    IF c \in 48..57 THEN c - 48
    ELSE IF c \in 97..102 THEN c - 87
    ELSE IF c \in 65..70 THEN c - 55
    ELSE -1

ParseIntError(k) == [kind |-> k, value |-> <<>>]

\* a u32 as its top byte hi and its low 24 bits lo
U32(h, l) == [hi |-> h, lo |-> l]

\* the digits i.. of the string accumulated into the u32 acc
RECURSIVE FromDigits(_, _, _)
FromDigits(s, i, acc) ==
    IF i > Len(s) THEN [kind |-> "Ok", value |-> acc]
    ELSE LET x == ToDigit(s[i])
             l == acc.lo * 16 + (IF x < 0 THEN 0 ELSE x)
             h == acc.hi * 16 + (l \div 16777216)
         IN IF x < 0 THEN ParseIntError("InvalidDigit")
            ELSE IF h > 255 THEN ParseIntError("PosOverflow")
            ELSE FromDigits(s, i + 1, U32(h, l % 16777216))

\* u32::from_str_radix(s, 16)
from_str_radix(s) ==
    IF Len(s) = 0 THEN ParseIntError("Empty")
    ELSE IF s[1] \in {43, 45} /\ Len(s) = 1 THEN ParseIntError("InvalidDigit")
    ELSE IF s[1] = 43 THEN FromDigits(s, 2, U32(0, 0))
    ELSE FromDigits(s, 1, U32(0, 0))

\* [bytes[1], bytes[2], bytes[3]] of num.to_be_bytes()
LowBytes(n) == <<n.lo \div 65536, (n.lo \div 256) % 256, n.lo % 256>>

\* impl FromStr for ICAO
ICAO_from_str(s) ==
    LET r == from_str_radix(s)
    IN IF r.kind # "Ok" THEN r
       ELSE [kind |-> "Ok", value |-> LowBytes(r.value)]

\* the lengths of the strings explored
MaxHexLen == 7

\* strings of up to n characters over the alphabet
Strings(alphabet, n) == UNION {[1..k -> alphabet] : k \in 0..n}

IcaoDisplay ==
    /\ pc = "call"
    /\ hex_a' = ICAO_fmt(icao)
    /\ pc' = "shown"
    /\ UNCHANGED <<bytes, pos, formatted_frames, current_frame,
                   errors_found, entry, line, str_out, message, bits, crc,
                   id13_field, hex_gillham, mode_a, mode_c, num, alt,
                   id_field, squawk, rest, cn, icao, hex_b, icao_a, icao_b,
                   velocity, calculated, input, decoded>>

IcaoFromStrA ==
    /\ pc = "shown"
    /\ icao_a' = ICAO_from_str(hex_a)
    /\ pc' = "parsed"
    /\ UNCHANGED <<bytes, pos, formatted_frames, current_frame,
                   errors_found, entry, line, str_out, message, bits, crc,
                   id13_field, hex_gillham, mode_a, mode_c, num, alt,
                   id_field, squawk, rest, cn, icao, hex_a, hex_b, icao_b,
                   velocity, calculated, input, decoded>>

IcaoFromStrB ==
    /\ pc = "parsed"
    /\ icao_b' = ICAO_from_str(hex_b)
    /\ pc' = "returned"
    /\ UNCHANGED <<bytes, pos, formatted_frames, current_frame,
                   errors_found, entry, line, str_out, message, bits, crc,
                   id13_field, hex_gillham, mode_a, mode_c, num, alt,
                   id_field, squawk, rest, cn, icao, hex_a, hex_b, icao_a,
                   velocity, calculated, input, decoded>>

InitIcao ==
    LET \* the addresses explored
        IcaoBytes == {0, 1, 10, 171, 255}
        Icaos == {<<a, b, c>> : a \in IcaoBytes, b \in IcaoBytes, c \in IcaoBytes}
        \* the strings explored: 0 and 1 up to MaxHexLen characters, and up to two
        \* characters of 0 1 a A f F + - g
        HexStrings ==
            Strings({48, 49}, MaxHexLen)
            \cup Strings({48, 49, 97, 65, 102, 70, 43, 45, 103}, 2)
    IN  /\ icao \in Icaos
        /\ hex_a = <<>>
        /\ hex_b \in HexStrings
        /\ icao_a = NoResult
        /\ icao_b = NoResult
        /\ pc = "call"
        /\ Idle("icao")

NextIcao == IcaoDisplay \/ IcaoFromStrA \/ IcaoFromStrB

SpecIcao == InitIcao /\ [][NextIcao]_vars

\* the number a string of hexadecimal digits denotes: its digits' values
\* after an optional + and the leading zeros
RECURSIVE DropZeros(_)
DropZeros(s) == IF Len(s) > 0 /\ s[1] = 48 THEN DropZeros(Tail(s)) ELSE s

Denotes(s) ==
    LET d == DropZeros(IF Len(s) > 0 /\ s[1] = 43 THEN Tail(s) ELSE s)
    IN [i \in 1..Len(d) |-> ToDigit(d[i])]

\* C17: the ICAO hex-string/bytes conversion is a loss-free bijection: for
\* every 3-byte ICAO i, parsing the string produced by Display returns i,
\* and two accepted hex strings that denote different numbers never parse
\* to the same ICAO.
C17_IcaoBijection ==
    pc = "returned" =>
        /\ icao_a = [kind |-> "Ok", value |-> icao]
        /\ (icao_a.kind = "Ok" /\ icao_b.kind = "Ok"
                /\ Denotes(hex_a) # Denotes(hex_b))
               => icao_a.value # icao_b.value

(***************************************************************************)
(* AirborneVelocity::calculate.  The message is a record of the fields     *)
(* the function reads; heading and ground speed, which the function        *)
(* derives from v_ew and v_ns by atan2 and hypot, are carried as the pair  *)
(* of integer components.                                                  *)
(***************************************************************************)
SignValueAlwaysPositive(s) == 1

\* Sign::value
Sign_value(s) == IF s = "Positive" THEN 1 ELSE -1

\* v as i16
AsI16(v) == IF v % 65536 >= 32768 THEN (v % 65536) - 65536 ELSE v % 65536

\* u16::checked_sub, u16::checked_mul: -1 stands for None
CheckedSub(a, b) == IF a < 0 \/ a < b THEN -1 ELSE a - b

CheckedMul(a, b) == IF a < 0 \/ a * b > 65535 THEN -1 ELSE a * b

\* a product or difference of i16 values: overflow panics
I16(v) == IF v \in -32768..32767 THEN Read(v, 0) ELSE Panic

calculate(self) ==
    IF self.sub_type.variant = "GroundSpeedDecoding"
    THEN LET ground_speed == self.sub_type
             ew == I16(AsI16(ground_speed.ew_vel) - 1)
             ns == I16(AsI16(ground_speed.ns_vel) - 1)
             v_ew == I16(ew.value * Sign_value(ground_speed.ew_sign))
             v_ns == I16(ns.value * Sign_value(ground_speed.ns_sign))
             v == CheckedMul(CheckedSub(self.vrate_value, 1), 64)
             vrate == I16(AsI16(v) * Sign_value(self.vrate_sign))
         IN IF "Panic" \in {ew.kind, ns.kind, v_ew.kind, v_ns.kind} THEN Panic
            ELSE IF v < 0 THEN OptionNone
            ELSE IF vrate.kind = "Panic" THEN Panic
            ELSE [kind |-> "Option::Some",
                  value |-> [v_ew |-> v_ew.value, v_ns |-> v_ns.value,
                             vrate |-> vrate.value]]
    ELSE OptionNone

\* the messages explored: every sub-type code, every 9-bit vertical rate
\* with both signs
IsVelocity(v) ==
    LET \* AirborneVelocitySubType for sub-type code st
        SubTypes(st) ==
            IF st = 0 THEN {[variant |-> "Reserved0"]}
            ELSE IF st \in 1..2
            THEN {[variant |-> "GroundSpeedDecoding", ew_sign |-> es, ew_vel |-> ev,
                   ns_sign |-> nsg, ns_vel |-> nv] :
                     es \in {"Positive", "Negative"}, ev \in {0, 1023},
                     nsg \in {"Positive"}, nv \in {0, 1023}}
            ELSE IF st \in 3..4 THEN {[variant |-> "AirspeedDecoding"]}
            ELSE {[variant |-> "Reserved1"]}
    IN  \E st \in 0..7 : \E t \in SubTypes(st), s \in {"Positive", "Negative"}, r \in 0..511 :
            v = [st |-> st, sub_type |-> t, vrate_sign |-> s, vrate_value |-> r]

Calculate ==
    /\ pc = "call"
    /\ calculated' = calculate(velocity)
    /\ pc' = "returned"
    /\ UNCHANGED <<bytes, pos, formatted_frames, current_frame,
                   errors_found, entry, line, str_out, message, bits, crc,
                   id13_field, hex_gillham, mode_a, mode_c, num, alt,
                   id_field, squawk, rest, cn, icao, hex_a, hex_b, icao_a,
                   icao_b, velocity, input, decoded>>

InitVel ==
    /\ IsVelocity(velocity)
    /\ calculated = NoResult
    /\ pc = "call"
    /\ Idle("vel")

NextVel == Calculate

SpecVel == InitVel /\ [][NextVel]_vars

\* C18: for an airborne-velocity message with ground-speed sub-type and
\* 9-bit raw vertical-rate value r, calculate returns a vertical rate equal
\* to sign*(r-1)*64 with no 16-bit overflow when r >= 1, and returns None
\* when r = 0 or when the sub-type is not ground-speed decoding.
C18_VerticalRate ==
    pc = "returned" =>
        LET r == velocity.vrate_value
            sign == IF velocity.vrate_sign = "Negative" THEN -1 ELSE 1
            ground == velocity.st \in 1..2
        IN /\ (ground /\ r >= 1) =>
                  /\ calculated.kind = "Option::Some"
                  /\ calculated.value.vrate = sign * (r - 1) * 64
                  /\ calculated.value.vrate \in -32768..32767
           /\ (r = 0 \/ ~ground) => calculated = OptionNone

\* the largest 9-bit rate, descending: -32640 ft/min
C18_Witness ==
    /\ pc = "returned"
    /\ velocity.st = 1
    /\ velocity.vrate_value = 511
    /\ velocity.vrate_sign = "Negative"
    /\ calculated.kind = "Option::Some"
    /\ calculated.value.vrate = -32640

(***************************************************************************)
(* The message envelope: AdsbRawMessage, DF, ME and the structures they    *)
(* hold, as derived by DekuRead.  A structure is the list of its fields    *)
(* in declaration order; a field is described by how it is read.           *)
(***************************************************************************)
\* #[deku(bits = "n")] on an integer or a bool
Bits(name, n) == [t |-> "bits", name |-> name, n |-> n]

\* pad_bits_before, pad_bits_after, pad_bytes_before
Pad(n) == [t |-> "pad", name |-> "", n |-> n]

\* #[deku(bits = "n", assert_eq = "v")]
AssertEq(name, n, v) == [t |-> "assert_eq", name |-> name, n |-> n, v |-> v]

\* an enum without data, #[deku(type = "u8", bits = "n")]: ids are the ids
\* of its `id =` and discriminant variants, pats those of its id_pat variants
Enum(name, n, ids, pats) ==
    [t |-> "enum", name |-> name, n |-> n, ids |-> ids, pats |-> pats]

\* [u8; n] and #[deku(count = "n")] Vec<u8>
Bytes(name, n) == [t |-> "bytes", name |-> name, n |-> n]

\* #[deku(bits = "n", map = ..)]: closure names the field
Map(name, n) == [t |-> "map", name |-> name, n |-> n]

\* #[deku(reader = ..)]
Reader(name, fn) == [t |-> "reader", name |-> name, fn |-> fn]

\* an enum with data; n = 0 when its id comes from the context field ctx
Variant(enum, n, ctx) == [t |-> "variant", name |-> enum, n |-> n, ctx |-> ctx]

Sign(name) == Enum(name, 1, {0, 1}, {})

\* a variant of an enum with data: its name, whether reading it consumes
\* the id (`id =`) or leaves it to the first field (`id_pat =`), its fields
Arm(name, consume, fields) ==
    [name |-> name, consume |-> consume, fields |-> fields]

\* no variant matches the id
NoArm == Arm("", FALSE, <<>>)

DF_WithCatchAll(id) ==
    CASE id = 19 -> Arm("ExtendedQuitterMilitaryApplication", TRUE, <<Bits("af", 3)>>)
      [] OTHER -> Arm("Unknown", TRUE, <<Bits("0", 3)>>)

DF(id) ==
    LET ICAO(name) == Bytes(name, 3)
        Capability(name) == Enum(name, 3, {0, 4, 5, 6, 7}, {1, 2, 3})
        FlightStatus(name) == Enum(name, 3, 0..7, {})
        DownlinkRequest(name) == Enum(name, 5, {0, 1, 4, 5}, (0..31) \ {0, 1, 4, 5})
        UtilityMessage == <<Bits("iis", 4), Enum("ids", 2, 0..3, {})>>
        KE(name) == Enum(name, 1, {0, 1}, {})
        AC13Field(name) == Reader(name, "AC13Field::read")
        ControlField == <<
            Enum("t", 3, 0..7, {}), ICAO("aa"), Variant("ME", 5, "")
        >>
        Adsb == <<
            Capability("capability"), ICAO("icao"), Variant("ME", 5, ""), ICAO("pi")
        >>
    IN  CASE id = 17 -> Arm("ADSB", TRUE, Adsb)
          [] id = 11 -> Arm("AllCallReply", TRUE,
                <<Capability("capability"), ICAO("icao"), ICAO("p_icao")>>)
          [] id = 0 -> Arm("ShortAirAirSurveillance", TRUE,
                <<Bits("vs", 1), Bits("cc", 1), Bits("unused", 1), Bits("sl", 3),
                  Bits("unused1", 2), Bits("ri", 4), Bits("unused2", 2),
                  AC13Field("altitude"), ICAO("parity")>>)
          [] id = 4 -> Arm("SurveillanceAltitudeReply", TRUE,
                <<FlightStatus("fs"), DownlinkRequest("dr")>> \o UtilityMessage
                \o <<AC13Field("ac"), ICAO("ap")>>)
          [] id = 5 -> Arm("SurveillanceIdentityReply", TRUE,
                <<FlightStatus("fs"), DownlinkRequest("dr")>> \o UtilityMessage
                \o <<Reader("id", "IdentityCode::read"), ICAO("ap")>>)
          [] id = 16 -> Arm("LongAirAir", TRUE,
                <<Bits("vs", 1), Bits("spare1", 2), Bits("sl", 3), Bits("spare2", 2),
                  Bits("ri", 4), Bits("spare3", 2), AC13Field("altitude"),
                  Bytes("mv", 7), ICAO("parity")>>)
          [] id = 18 -> Arm("TisB", TRUE, ControlField \o <<ICAO("pi")>>)
          [] id = 19 -> Arm("ExtendedQuitterMilitaryApplication", TRUE,
                <<Bits("af", 3)>>)
          [] id = 20 -> Arm("CommBAltitudeReply", TRUE,
                <<FlightStatus("flight_status"), DownlinkRequest("dr")>>
                \o UtilityMessage
                \o <<AC13Field("alt"), Variant("BDS", 8, ""), ICAO("parity")>>)
          [] id = 21 -> Arm("CommBIdentityReply", TRUE,
                <<FlightStatus("fs"), DownlinkRequest("dr")>> \o UtilityMessage
                \o <<Map("squawk", 13), Variant("BDS", 8, ""), ICAO("parity")>>)
          [] id \in 24..31 -> Arm("CommDExtendedLengthMessage", FALSE,
                <<Bits("spare", 1), KE("ke"), Bits("nd", 4), Bytes("md", 10),
                  ICAO("parity")>>)
          [] OTHER -> NoArm

ME(id) ==
    LET Altitude == <<
            Bits("tc", 5),
            Enum("ss", 2, 0..3, {}),
            Bits("saf_or_imf", 1),
            Reader("alt", "Altitude::read"),
            Bits("t", 1),
            Enum("odd_flag", 1, {0, 1}, {}),
            Bits("lat_cpr", 17),
            Bits("lon_cpr", 17)
        >>
        AirborneVelocity == <<
            Bits("st", 3),
            Bits("nac_v", 5),
            Variant("AirborneVelocitySubType", 0, "st"),
            Enum("vrate_src", 1, {0, 1}, {}),
            Sign("vrate_sign"),
            Bits("vrate_value", 9),
            Bits("reverved", 2),
            Sign("gnss_sign"),
            Map("gnss_baro_diff", 7)
        >>
        Identification == <<
            Enum("tc", 5, {1, 2, 3, 4}, {}),
            Bits("ca", 3),
            Reader("cn", "aircraft_identification_read")
        >>
        SurfacePosition == <<
            Bits("mov", 7),
            Enum("s", 1, {0, 1}, {}),
            Bits("trk", 7),
            Bits("t", 1),
            Enum("f", 1, {0, 1}, {}),
            Bits("lat_cpr", 17),
            Bits("lon_cpr", 17)
        >>
        AircraftStatus == <<
            Enum("sub_type", 3, {0, 1, 2}, 3..7),
            Enum("emergency_state", 3, 0..7, {}),
            Map("squawk", 13)
        >>
        TargetStateAndStatusInformation == <<
            Bits("subtype", 2),
            Bits("is_fms", 1),
            Map("altitude", 12),
            Map("qnh", 9),
            Bits("is_heading", 1),
            Map("heading", 9),
            Bits("nacp", 4),
            Bits("nicbaro", 1),
            Bits("sil", 2),
            Bits("mode_validity", 1),
            Bits("autopilot", 1),
            Bits("vnac", 1),
            Bits("alt_hold", 1),
            Bits("imf", 1),
            Bits("approach", 1),
            Bits("tcas", 1),
            Bits("lnav", 1), Pad(2)
        >>
    IN  CASE id \in 9..18 -> Arm("AirbornePositionBaroAltitude", FALSE, Altitude)
          [] id = 19 -> Arm("AirborneVelocity", TRUE, AirborneVelocity)
          [] id = 0 -> Arm("NoPosition", TRUE, <<Bytes("0", 6)>>)
          [] id \in 1..4 -> Arm("AircraftIdentification", FALSE, Identification)
          [] id \in 5..8 -> Arm("SurfacePosition", FALSE, SurfacePosition)
          [] id \in 20..22 -> Arm("AirbornePositionGNSSAltitude", FALSE, Altitude)
          [] id = 23 -> Arm("Reserved0", TRUE, <<Bytes("0", 6)>>)
          [] id = 24 -> Arm("SurfaceSystemStatus", FALSE, <<Bytes("0", 6)>>)
          [] id \in 25..27 -> Arm("Reserved1", FALSE, <<Bytes("0", 6)>>)
          [] id = 28 -> Arm("AircraftStatus", TRUE, AircraftStatus)
          [] id = 29 -> Arm("TargetStateAndStatusInformation", TRUE,
                            TargetStateAndStatusInformation)
          [] id = 30 -> Arm("AircraftOperationalCoordination", TRUE, <<Bytes("0", 6)>>)
          [] id = 31 -> Arm("AircraftOperationStatus", TRUE,
                            <<Variant("OperationStatus", 3, "")>>)
          [] OTHER -> NoArm

OperationStatus(id) ==
    LET CapabilityClassAirborne == <<
            AssertEq("reserved0", 2, 0),
            Bits("acas", 1),
            Bits("cdti", 1),
            AssertEq("reserved1", 2, 0),
            Bits("arv", 1),
            Bits("ts", 1),
            Bits("tc", 2), Pad(6)
        >>
        CapabilityClassSurface == <<
            AssertEq("reserved0", 2, 0),
            Bits("poe", 1),
            Bits("es1090", 1), Pad(2),
            Bits("b2_low", 1),
            Bits("uat_in", 1),
            Bits("nac_v", 3),
            Bits("nic_supplement_c", 1)
        >>
        OperationalMode == <<
            AssertEq("reserved", 2, 0),
            Bits("tcas_ra_active", 1),
            Bits("ident_switch_active", 1),
            Bits("reserved_recv_atc_service", 1),
            Bits("single_antenna_flag", 1),
            Bits("system_design_assurance", 2)
        >>
        ADSBVersion(name) == Enum(name, 3, {0, 1, 2}, {})
        OperationStatusAirborne ==
            CapabilityClassAirborne \o OperationalMode \o <<
            Pad(8), ADSBVersion("version_number"),
            Bits("nic_supplement_a", 1),
            Bits("navigational_accuracy_category", 4),
            Bits("geometric_vertical_accuracy", 2),
            Bits("source_integrity_level", 2),
            Bits("barometric_altitude_integrity", 1),
            Bits("horizontal_reference_direction", 1),
            Bits("sil_supplement", 1), Pad(1)
        >>
        OperationStatusSurface ==
            CapabilityClassSurface \o <<Bits("lw_codes", 4)>> \o OperationalMode \o <<
            Bits("gps_antenna_offset", 8),
            ADSBVersion("version_number"),
            Bits("nic_supplement_a", 1),
            Bits("navigational_accuracy_category", 4), Pad(2),
            Bits("source_integrity_level", 2),
            Bits("barometric_altitude_integrity", 1),
            Bits("horizontal_reference_direction", 1),
            Bits("sil_supplement", 1), Pad(1)
        >>
    IN  CASE id = 0 -> Arm("Airborne", TRUE, OperationStatusAirborne)
          [] id = 1 -> Arm("Surface", TRUE, OperationStatusSurface)
          [] id \in 2..7 -> Arm("Reserved", FALSE, <<Bits("0", 5), Bytes("1", 5)>>)
          [] OTHER -> NoArm

\* mutant: the sub-type ranges begin one code too late
AirborneVelocitySubTypeOffByOne(st) ==
    CASE st \in 0..1 -> Arm("Reserved0", TRUE, <<Bits("0", 22)>>)
      [] st \in 2..3 -> Arm("GroundSpeedDecoding", FALSE, <<Bits("0", 22)>>)
      [] st \in 4..5 -> Arm("AirspeedDecoding", FALSE, <<Bits("0", 22)>>)
      [] OTHER -> Arm("Reserved1", FALSE, <<Bits("0", 22)>>)

AirborneVelocitySubType(st) ==
    LET GroundSpeedDecoding == <<
            Sign("ew_sign"), Bits("ew_vel", 10), Sign("ns_sign"), Bits("ns_vel", 10)
        >>
        AirspeedDecoding == <<
            Bits("status_heading", 1), Bits("mag_heading", 10),
            Bits("airspeed_type", 1), Map("airspeed", 10)
        >>
    IN  CASE st = 0 -> Arm("Reserved0", TRUE, <<Bits("0", 22)>>)
          [] st \in 1..2 -> Arm("GroundSpeedDecoding", FALSE, GroundSpeedDecoding)
          [] st \in 3..4 -> Arm("AirspeedDecoding", FALSE, AirspeedDecoding)
          [] st \in 5..7 -> Arm("Reserved1", FALSE, <<Bits("0", 22)>>)
          [] OTHER -> NoArm

BDS(id) ==
    LET DataLinkCapability == <<
            Bits("continuation_flag", 1), Pad(5),
            Bits("overlay_command_capability", 1),
            Bits("acas", 1),
            Bits("mode_s_subnetwork_version_number", 7),
            Bits("transponder_enhanced_protocol_indicator", 1),
            Bits("mode_s_specific_services_capability", 1),
            Bits("uplink_elm_average_throughput_capability", 3),
            Bits("downlink_elm", 4),
            Bits("aircraft_identification_capability", 1),
            Bits("squitter_capability_subfield", 1),
            Bits("surveillance_identifier_code", 1),
            Bits("common_usage_gicb_capability_report", 1),
            Bits("reserved_acas", 4),
            Bits("bit_array", 16)
        >>
    IN  CASE id = 0 -> Arm("Empty", TRUE, <<Bytes("0", 6)>>)
          [] id = 16 -> Arm("DataLinkCapability", TRUE, DataLinkCapability)
          [] id = 32 -> Arm("AircraftIdentification", TRUE,
                            <<Reader("0", "aircraft_identification_read")>>)
          [] OTHER -> Arm("Unknown", FALSE, <<Bytes("0", 6)>>)

\* the variant of enum e that id selects
ArmOf(e, id) ==
    CASE e = "DF" -> DF(id)
      [] e = "ME" -> ME(id)
      [] e = "OperationStatus" -> OperationStatus(id)
      [] e = "AirborneVelocitySubType" -> AirborneVelocitySubType(id)
      [] e = "BDS" -> BDS(id)
\* unsigned arithmetic: a result below zero or above the type's maximum
\* panics
U16Arith(x) == IF x \in 0..65535 THEN Read(x, 0) ELSE Panic

U32Arith(x) == IF x >= 0 THEN Read(x, 0) ELSE Panic

gnss_baro_diff_Unguarded(v) ==
    LET d == U16Arith(v - 1)
    IN IF d.kind # "Ok" THEN d ELSE U16Arith(d.value * 25)

\* if gnss_baro_diff > 1 {(gnss_baro_diff - 1)* 25} else { 0 }
gnss_baro_diff(v) ==
    IF v > 1
    THEN LET d == U16Arith(v - 1)
         IN IF d.kind # "Ok" THEN d ELSE U16Arith(d.value * 25)
    ELSE Read(0, 0)

\* the map closure of the field called name applied to the bits read
MapClosure(name, v) ==
    LET \* if airspeed > 0 { airspeed - 1 } else { 0 }
        airspeed(x) == IF x > 0 THEN U16Arith(x - 1) ELSE Read(0, 0)
        \* if altitude > 1 {(altitude - 1) * 32} else {0}
        altitude(x) ==
            IF x > 1
            THEN LET d == U32Arith(x - 1)
                 IN IF d.kind # "Ok" THEN d ELSE U32Arith(d.value * 32)
            ELSE Read(0, 0)
        \* if qnh == 0 { 0.0 } else { 800.0 + ((qnh - 1) as f32) * 0.8 }, in tenths
        qnh(x) ==
            IF x = 0 THEN Read(0, 0)
            ELSE LET d == U32Arith(x - 1)
                 IN IF d.kind # "Ok" THEN d ELSE Read(8000 + d.value * 8, 0)
        \* heading as f32 * 180.0 / 256.0, in 256ths of a degree
        heading(x) == Read(x * 180, 0)
    IN  CASE name = "gnss_baro_diff" -> gnss_baro_diff(v)
          [] name = "airspeed" -> airspeed(v)
          [] name = "altitude" -> altitude(v)
          [] name = "qnh" -> qnh(v)
          [] name = "heading" -> heading(v)
          [] name = "squawk" -> Read(squawk_map(v).value, 0)

\* the field readers named by #[deku(reader = ..)]
ReaderCall(fn, f, o) ==
    LET \* the value x returned by a field reader, with the bits that remain
        Returned(x, left) ==
            IF x.kind \in {"Ok", "u16", "Option::Some", "Option::None"} THEN Read(x, left)
            ELSE [kind |-> x.kind, value |-> 0, off |-> 0]
    IN  CASE fn = "aircraft_identification_read" -> aircraft_identification_read(f, o)
          [] fn = "AC13Field::read" ->
                LET r == ReadBits(f, o, 13)
                IN IF r.kind # "Ok" THEN r ELSE Returned(AC13Field_read(r.value), r.off)
          [] fn = "Altitude::read" ->
                LET r == ReadBits(f, o, 12)
                IN IF r.kind # "Ok" THEN r ELSE Returned(Altitude_read(r.value), r.off)
          [] fn = "IdentityCode::read" ->
                LET r == ReadBits(f, o, 13)
                IN IF r.kind # "Ok" THEN r ELSE Returned(IdentityCode_read(r.value), r.off)

\* mutant: assert_eq is not checked
ReadFieldNoAssert(f, o, d) ==
    CASE d.t \in {"bits", "assert_eq"} -> ReadBits(f, o, d.n)
      [] d.t = "pad" ->
            IF o + d.n > 8 * Len(f) THEN DekuError("Incomplete") ELSE Read(0, o + d.n)
      [] d.t = "enum" ->
            LET r == ReadBits(f, o, d.n)
            IN IF r.kind # "Ok" THEN r
               ELSE IF r.value \in d.ids THEN r
               ELSE IF r.value \in d.pats THEN Read(r.value, o)
               ELSE DekuError("Parse")
      [] d.t = "bytes" ->
            IF o + 8 * d.n > 8 * Len(f) THEN DekuError("Incomplete")
            ELSE Read([i \in 1..d.n |-> BitsValue(f, o + 8 * (i - 1), 8)], o + 8 * d.n)
      [] d.t = "map" ->
            LET r == ReadBits(f, o, d.n)
            IN IF r.kind # "Ok" THEN r
               ELSE LET m == MapClosure(d.name, r.value)
                    IN IF m.kind # "Ok" THEN m ELSE Read(m.value, r.off)
      [] d.t = "reader" -> ReaderCall(d.fn, f, o)

\* one field d read at offset o
ReadField(f, o, d) ==
    CASE d.t = "bits" -> ReadBits(f, o, d.n)
      [] d.t = "pad" ->
            IF o + d.n > 8 * Len(f) THEN DekuError("Incomplete") ELSE Read(0, o + d.n)
      [] d.t = "assert_eq" ->
            LET r == ReadBits(f, o, d.n)
            IN IF r.kind # "Ok" THEN r
               ELSE IF r.value # d.v THEN DekuError("Assertion")
               ELSE r
      [] d.t = "enum" ->
            LET r == ReadBits(f, o, d.n)
            IN IF r.kind # "Ok" THEN r
               ELSE IF r.value \in d.ids THEN r
               ELSE IF r.value \in d.pats THEN Read(r.value, o)
               ELSE DekuError("Parse")
      [] d.t = "bytes" ->
            IF o + 8 * d.n > 8 * Len(f) THEN DekuError("Incomplete")
            ELSE Read([i \in 1..d.n |-> BitsValue(f, o + 8 * (i - 1), 8)], o + 8 * d.n)
      [] d.t = "map" ->
            LET r == ReadBits(f, o, d.n)
            IN IF r.kind # "Ok" THEN r
               ELSE LET m == MapClosure(d.name, r.value)
                    IN IF m.kind # "Ok" THEN m ELSE Read(m.value, r.off)
      [] d.t = "reader" -> ReaderCall(d.fn, f, o)

\* the value of the field called name among the fields read so far
Field(acc, name) ==
    acc[CHOOSE i \in 1..Len(acc) :
            /\ acc[i][1] = name
            /\ \A j \in (i + 1)..Len(acc) : acc[j][1] # name][2]


\* the fields of a structure read in order from offset o; acc holds the
\* pairs <<name, value>> read so far, the variant chosen for an enum with
\* data being recorded under the enum's name
RECURSIVE ReadFields(_, _, _, _)
ReadFields(f, o, fields, acc) ==
    IF fields = <<>> THEN Read(acc, o)
    ELSE LET d == Head(fields)
         IN IF d.t = "variant"
            THEN LET id == IF d.n = 0 THEN Read(Field(acc, d.ctx), o)
                           ELSE ReadBits(f, o, d.n)
                 IN IF id.kind # "Ok" THEN id
                    ELSE LET arm == ArmOf(d.name, id.value)
                         IN IF arm.name = "" THEN DekuError("Parse")
                            ELSE ReadFields(f, IF arm.consume THEN id.off ELSE o,
                                            arm.fields \o Tail(fields),
                                            Append(acc, <<d.name, arm.name>>))
            ELSE LET r == ReadField(f, o, d)
                 IN IF r.kind # "Ok" THEN r
                    ELSE ReadFields(f, r.off, Tail(fields),
                                    IF d.t = "pad" THEN acc
                                    ELSE Append(acc, <<d.name, r.value>>))

\* DF::deku_id(): -1 stands for Err (the variant has an id_pat)
deku_id(df) ==
    LET name == Field(df, "DF")
    IN IF \E id \in 0..31 : DF(id).name = name /\ DF(id).consume
       THEN CHOOSE id \in 0..31 : DF(id).name = name /\ DF(id).consume
       ELSE -1

BitLenAlwaysShort(id) == MODES_SHORT_MSG_BYTES * 8

\* let bit_len = ..
BitLen(id) ==
    IF id >= 0
    THEN IF BitAnd(id, 16) # 0 THEN MODES_LONG_MSG_BYTES * 8
         ELSE MODES_SHORT_MSG_BYTES * 8
    ELSE MODES_LONG_MSG_BYTES * 8

read_crc(df, f) ==
    LET \* rest.domain().region(): None when the bits from..to lie inside one byte
        \* and touch neither of its edges
        RegionIsNone(from, to) ==
            /\ from < to
            /\ from \div 8 = (to - 1) \div 8
            /\ from % 8 # 0
            /\ to % 8 # 0
    IN  IF RegionIsNone(0, 8 * Len(f)) THEN Panic
        ELSE LET c == modes_checksum(f, BitLen(deku_id(df)))
             IN IF c.kind = "Ok" THEN Read(c.value, 0)
                ELSE IF c.kind = "Incomplete" THEN DekuError("Incomplete")
                ELSE Panic

\* AdsbRawMessage::from_bytes((bytes, 0)) as to_adsb_raw calls it
to_adsb_raw(f) ==
    LET df == ReadFields(f, 0, <<Variant("DF", 5, "")>>, <<>>)
    IN IF df.kind # "Ok" THEN df
       ELSE LET c == read_crc(df.value, f)
            IN IF c.kind # "Ok" THEN c
               ELSE Read([df |-> df.value, crc |-> c.value], 0)

\* the 13 bytes after the first of four frames: zeros, ones, the bytes 0x10
\* (Q bit of an altitude field) and an airborne position message
Bodies == {
    <<0, 0, 0, 0, 0, 0, 0, 0, 0, 0, 0, 0, 0>>,
    <<255, 255, 255, 255, 255, 255, 255, 255, 255, 255, 255, 255, 255>>,
    <<16, 16, 16, 16, 16, 16, 16, 16, 16, 16, 16, 16, 16>>,
    <<64, 98, 29, 88, 195, 130, 214, 144, 200, 172, 40, 99, 167>>
}

\* the frames explored: every first byte before every body, at every
\* length; every fifth byte (type code and sub-type) of the squitter frames;
\* every value of the sixth, eighth and tenth byte (reserved bits and
\* version number) of an otherwise zero operational-status message
IsEnvInput(f) ==
    LET \* the lengths explored
        FrameLengths == {0, 1, 6, 7, 10, 13, 14}
        \* the first bytes of the extended squitter frames: DF17 with capability 5
        \* and DF18 with every control-field type
        SquitterHeads == {17 * 8 + 5} \cup {18 * 8 + cf : cf \in 0..7}
    IN  \/ \E b0 \in 0..255, body \in Bodies, n \in FrameLengths :
              f = SubSeq(<<b0>> \o body, 1, n)
        \/ \E b0 \in SquitterHeads, b4 \in 0..255, body \in Bodies,
                n \in {MODES_SHORT_MSG_BYTES, MODES_LONG_MSG_BYTES} :
              f = SubSeq(<<b0>> \o [body EXCEPT ![4] = b4], 1, n)
        \/ \E st \in 0..2, k \in {6, 8, 10}, b \in 0..255 :
              f = [i \in 1..MODES_LONG_MSG_BYTES |->
                      IF i = 1 THEN 17 * 8 + 5
                      ELSE IF i = 5 THEN 31 * 8 + st
                      ELSE IF i = k THEN b
                      ELSE 0]

ToAdsbRaw ==
    /\ pc = "call"
    /\ decoded' = to_adsb_raw(input)
    /\ pc' = "returned"
    /\ UNCHANGED <<bytes, pos, formatted_frames, current_frame,
                   errors_found, entry, line, str_out, message, bits, crc,
                   id13_field, hex_gillham, mode_a, mode_c, num, alt,
                   id_field, squawk, rest, cn, icao, hex_a, hex_b, icao_a,
                   icao_b, velocity, calculated, input>>

InitEnv ==
    /\ IsEnvInput(input)
    /\ decoded = NoResult
    /\ pc = "call"
    /\ Idle("env")

NextEnv == ToAdsbRaw

SpecEnv == InitEnv /\ [][NextEnv]_vars

\* the leading 5-bit DF id of a frame
DfId(f) == f[1] \div 8

DekuErrors == {"Incomplete", "Parse", "Assertion"}

KnownDf == {0, 4, 5, 11, 16, 17, 18, 19, 20, 21} \cup (24..31)

DeclaredDf(id) ==
    CASE id = 0 -> "ShortAirAirSurveillance"
      [] id = 4 -> "SurveillanceAltitudeReply"
      [] id = 5 -> "SurveillanceIdentityReply"
      [] id = 11 -> "AllCallReply"
      [] id = 16 -> "LongAirAir"
      [] id = 17 -> "ADSB"
      [] id = 18 -> "TisB"
      [] id = 19 -> "ExtendedQuitterMilitaryApplication"
      [] id = 20 -> "CommBAltitudeReply"
      [] id = 21 -> "CommBIdentityReply"
      [] id \in 24..31 -> "CommDExtendedLengthMessage"

\* C14: decoding a frame whose leading 5-bit DF id is not one of 0, 4, 5,
\* 11, 16, 17, 18, 19, 20, 21 or 24..31 always fails with an error; a frame
\* whose DF id is in that set is dispatched to the variant declared for
\* that id (24..31 all to Comm-D ELM).
C14_DfDispatch ==
    (pc = "returned" /\ Len(input) >= 1) =>
        /\ DfId(input) \notin KnownDf => decoded.kind \in DekuErrors
        /\ DfId(input) \in KnownDf =>
              /\ ArmOf("DF", DfId(input)).name = DeclaredDf(DfId(input))
              /\ decoded.kind = "Ok" =>
                     Field(decoded.value.df, "DF") = DeclaredDf(DfId(input))

\* a 14-byte frame with DF id 22
C14_Witness ==
    /\ pc = "returned"
    /\ Len(input) = 14
    /\ DfId(input) = 22
    /\ decoded.kind = "Parse"

\* C15: for every 7-byte and every 14-byte input frame, decoding to
\* AdsbRawMessage terminates without a panic (no arithmetic overflow, no
\* out-of-bounds index, no failed unwrap) and returns either a decoded
\* message or a typed error.
C15_NoPanic ==
    (pc = "returned" /\ Len(input) \in {7, 14}) =>
        decoded.kind \in {"Ok"} \cup DekuErrors

\* an airborne velocity message whose raw fields are all zero, the value
\* at which the decrements of the map closures would underflow
C15_Witness ==
    /\ pc = "returned"
    /\ Len(input) = 14
    /\ DfId(input) = 17
    /\ decoded.kind = "Ok"
    /\ Field(decoded.value.df, "ME") = "AirborneVelocity"
    /\ BitsValue(input, 81, 7) = 0
    /\ Field(decoded.value.df, "gnss_baro_diff") = 0

\* the message width of a DF id: 14 bytes when bit 0x10 is set, else 7
Width(id) == IF id >= 16 THEN 14 ELSE 7

AdsbControlFields == {0, 1, 5, 6}

InterpretedME == {
    "AirbornePositionBaroAltitude", "AirbornePositionGNSSAltitude",
    "SurfacePosition", "AirborneVelocity", "AircraftIdentification",
    "AircraftStatus", "TargetStateAndStatusInformation",
    "AircraftOperationStatus"
}

\* C20: for a DF18 frame whose 3-bit control-field code is not an ADS-B
\* code, the 6-byte payload is preserved uninterpreted: it is not
\* dispatched by type code into a position, velocity, identification or
\* status decoder.
C20_NonAdsbPayloadRaw ==
    (pc = "returned" /\ decoded.kind = "Ok" /\ DfId(input) = 18
        /\ (input[1] % 8) \notin AdsbControlFields) =>
        Field(decoded.value.df, "ME") \notin InterpretedME

\* a returned decode of a 14-byte DF17 frame whose capability is one of the
\* declared codes 0, 4..7, so that the ME field starts at bit 32
Df17Returned ==
    /\ pc = "returned"
    /\ Len(input) = 14
    /\ DfId(input) = 17
    /\ input[1] % 8 \in {0, 4, 5, 6, 7}

\* the type code of a DF17 frame and the three bits after it
TypeCode(f) == BitsValue(f, 32, 5)

SubTypeCode(f) == BitsValue(f, 37, 3)

DeclaredMe(tc) ==
    CASE tc = 0 -> "NoPosition"
      [] tc \in 1..4 -> "AircraftIdentification"
      [] tc \in 5..8 -> "SurfacePosition"
      [] tc \in 9..18 -> "AirbornePositionBaroAltitude"
      [] tc = 19 -> "AirborneVelocity"
      [] tc \in 20..22 -> "AirbornePositionGNSSAltitude"
      [] tc = 23 -> "Reserved0"
      [] tc = 24 -> "SurfaceSystemStatus"
      [] tc \in 25..27 -> "Reserved1"
      [] tc = 28 -> "AircraftStatus"
      [] tc = 29 -> "TargetStateAndStatusInformation"
      [] tc = 30 -> "AircraftOperationalCoordination"
      [] tc = 31 -> "AircraftOperationStatus"

DeclaredSubType(st) ==
    CASE st = 0 -> "Reserved0"
      [] st \in 1..2 -> "GroundSpeedDecoding"
      [] st \in 3..4 -> "AirspeedDecoding"
      [] st \in 5..7 -> "Reserved1"

\* C25: ME dispatch by the 5-bit type code is total and unambiguous: every
\* 14-byte DF17 frame whose type code is not 31 decodes, and so does one
\* with type code 31 and a reserved sub-type; a decoded frame holds the
\* variant declared for its type code (0 NoPosition, 1..4
\* AircraftIdentification, 5..8 SurfacePosition, 9..18
\* AirbornePositionBaroAltitude, 19 AirborneVelocity, 20..22
\* AirbornePositionGNSSAltitude, 28 AircraftStatus, 29
\* TargetStateAndStatusInformation, 31 AircraftOperationStatus, and a
\* 6-byte record for 23, 24, 25..27, 30), and within type code 19 the
\* sub-types 1..2 select ground-speed decoding, 3..4 airspeed decoding and
\* 0, 5..7 a reserved variant.
C25_MeDispatch ==
    Df17Returned =>
        LET tc == TypeCode(input)
            st == SubTypeCode(input)
        IN /\ (tc # 31 \/ st \in 2..7) => decoded.kind = "Ok"
           /\ decoded.kind = "Ok" =>
                 /\ Field(decoded.value.df, "ME") = DeclaredMe(tc)
                 /\ tc \in {23, 24, 25, 26, 27, 30} =>
                        Len(Field(decoded.value.df, "0")) = 6
                 /\ tc = 19 =>
                        Field(decoded.value.df, "AirborneVelocitySubType")
                            = DeclaredSubType(st)

\* an airborne velocity message with sub-type 4 decoded as airspeed
C25_Witness ==
    /\ Df17Returned
    /\ TypeCode(input) = 19
    /\ SubTypeCode(input) = 4
    /\ decoded.kind = "Ok"
    /\ Field(decoded.value.df, "AirborneVelocitySubType") = "AirspeedDecoding"

\* a returned decode of a 14-byte frame whose DF id has a variant
KnownDfReturned == pc = "returned" /\ Len(input) = 14 /\ DfId(input) \in KnownDf

OperationStatusRejected(f) ==
    /\ TypeCode(f) = 31
    /\ \/ /\ SubTypeCode(f) = 0
          /\ \/ BitsValue(f, 40, 2) # 0
             \/ BitsValue(f, 44, 2) # 0
             \/ BitsValue(f, 56, 2) # 0
             \/ BitsValue(f, 72, 3) > 2
       \/ /\ SubTypeCode(f) = 1
          /\ \/ BitsValue(f, 40, 2) # 0
             \/ BitsValue(f, 56, 2) # 0
             \/ BitsValue(f, 72, 3) > 2

C30_PiFromLastBytes ==
    (Df17Returned /\ decoded.kind = "Ok") =>
        Field(decoded.value.df, "pi") = <<input[12], input[13], input[14]>>

====
